---- MODULE Spec2Model ----
(***************************************************************************)
(* Layered image data model of bsmu.vision: ImageLayer and LayeredImage    *)
(* (vision-core/src/bsmu/vision/core/image/layered.py).                    *)
(*                                                                         *)
(* Qt signals are delivered synchronously (direct connections on the one   *)
(* UI thread), so every emit is a point where arbitrary handler code runs  *)
(* before the emitting method continues.  The model keeps a call stack:    *)
(* an operation that emits pushes a frame and stops at the emission; while *)
(* a frame is on top of the stack, handler code may call any public        *)
(* operation (a nested call); the continuation of the operation runs the   *)
(* code up to its next emission or its return.                             *)
(***************************************************************************)
EXTENDS Integers, Sequences, FiniteSets, TLC

\* ---------------------------------------------------------------- bounds
MaxLayers == 2        \* ImageLayer objects ever constructed
MaxImages == 2        \* Image objects
MaxDepth  == 2        \* nesting of operations through signal handlers
MaxNested == 1        \* calls made by the handlers of one operation
MaxSeq    == 3        \* length of LayeredImage._layers
MaxPixels == 1        \* pixel contents are 0..MaxPixels
MaxViews  == 2        \* _ImageItemLayer objects ever constructed
MaxWatched == 1       \* layer views whose caches are followed
MaxConn   == 2        \* connections of one signal to one layer view
MaxShapes == 1        \* array shapes are 0..MaxShapes
MaxViewDepth  == 2    \* nesting of viewer operations through signal handlers
MaxViewNested == 2    \* calls made by the handlers of one viewer operation
MaxCoord  == 3        \* pixel rows and columns are 0..MaxCoord
MaxScroll == 1        \* scroll bar values are 0..MaxScroll
MaxTimeLines == 2     \* wheel events, each starting a _ZoomTimeLine
MaxLate   == 2        \* update intervals a timer event may come late
MaxAnimated == 1      \* wheel events where every zoom is followed to its end
MaxRecords == 3       \* journal records ever created
MaxResults == 2       \* inference results fed into one LayeredImage
MaxUpdates == 2       \* images the application assigns while a tool is active
MaxFit    == 2        \* the scales fitInView computes are 1..MaxFit
MaxCallbacks == 2     \* scrollContentsBy calls one fitInView causes
MaxShown  == 4        \* records of the illustrated journal
MaxPlugins == 2       \* Plugin instances constructed
MaxEnables == 1       \* enable() calls on one Plugin instance

\* ------------------------------------------------------------- constants
None    == 0          \* Python None, for an image, a path or a palette
NoLayer == -1         \* Python None, for a layer

NoBitmap == [kind |-> "none"]   \* Python None, for a QImage
NoRect   == -1                   \* the null QRectF()
NoPos    == <<>>                 \* no position yet

Journals == {"retinal_fundus", "bone_age"}
NoJournalFrame == [journal |-> "", record |-> 0, pc |-> "", adding |-> FALSE,
                   nested |-> 0]
NoJournalEv == [call |-> "", journal |-> "", record |-> 0, sig |-> "",
                adding |-> FALSE, done |-> ""]

SMOOTH_ZOOM_DURATION == 100
SMOOTH_ZOOM_UPDATE_INTERVAL == 10
\* _ViewSmoothZoom.zoom_in_factor, in thousandths
ZoomInFactor == 250

\* per-tick factors of a zoom, in thousandths (on_wheel_scrolled, line 168)
ZoomFactor(up) ==
    1000 + (IF up THEN ZoomInFactor ELSE -ZoomInFactor)
             \div (SMOOTH_ZOOM_DURATION \div SMOOTH_ZOOM_UPDATE_INTERVAL)
\* a scale is the product of the factors applied: how many of each
Identity == [f \in {ZoomFactor(TRUE), ZoomFactor(FALSE)} |-> 0]

Images == 1..MaxImages
Shapes == 0..MaxShapes
Opacities == {50, 100}   \* opacity 0.5 and 1, in percent
Pixels == 0..MaxPixels
Names  == {"", "mask"}

\* Image.path and Image.palette of the Image objects (Image is immutable in
\* both): odd images were loaded from a file, images from 2 on are indexed.
ImagePath(i)    == IF i % 2 = 1 THEN 10 + i ELSE None
ImagePalette(i) == IF i >= 2 THEN 20 + i ELSE None
\* pathlib.Path.parent
Parent(p) == 100 + p

VARIABLES
    max_id,            \* ImageLayer.max_id (class attribute)
    name,              \* ImageLayer.name, per layer object
    image,             \* ImageLayer._image
    path,              \* ImageLayer.path
    palette,           \* ImageLayer.palette
    visibility,        \* ImageLayer._visibility (its visible flag)
    pixels_modified,   \* connections Image.pixels_modified -> layer.image_pixels_modified
    shape_changed,     \* connections Image.shape_changed -> layer.image_shape_changed
    pixels,            \* Image.pixels
    layers,            \* LayeredImage._layers
    layer_by_name,     \* LayeredImage._layer_by_name
    stack,             \* operations in progress, innermost last
    ev                 \* what the last step did: call, signal, error, return

\* the viewer: LayeredImageViewer, its _LayeredImageItem and the layer views
VARIABLES
    item_max_id,       \* _ImageItemLayer.max_id (class attribute)
    v_image,           \* _ImageItemLayer._image, per layer view
    v_name,            \* _ImageItemLayer.name
    v_visible,         \* _ImageItemLayer._visible
    v_opacity,         \* _ImageItemLayer.opacity
    v_cache,           \* _ImageItemLayer._displayed_image_cache
    v_pixels_modified, \* connections Image.pixels_modified -> view._on_image_updated
    item_layers,       \* _LayeredImageItem.layers
    names_layers,      \* _LayeredImageItem.names_layers
    active_layer,      \* _LayeredImageItem.active_layer
    bounding_rect,     \* _LayeredImageItem._bounding_rect
    active_updated,    \* connections view.image_updated ->
                       \*   viewer._on_active_layer_image_updated
    shape,             \* Image.array.shape
    vstack,            \* viewer operations in progress, innermost last
    vev                \* what the last viewer step did

\* LayeredImageViewer.viewport_pos_to_image_pixel_coords; positions are kept
\* in half pixels, so that the centre of a pixel is a whole number
VARIABLES
    pixel,             \* the pixel <<row, col>> whose centre is mapped
    scroll,            \* the values <<x, y>> of the scroll bars of the view
    viewport_pos,      \* the viewport position <<x, y>> given to the method
    coords             \* what the method returned, [row, col]

coordVars == <<pixel, scroll, viewport_pos, coords>>

\* GraphicsView and its _ViewSmoothZoom (graphics_view.py)
VARIABLES
    time_lines,        \* the _ZoomTimeLine objects started, oldest first
    transform,         \* QGraphicsView.transform(): the scale factors applied
                       \*   since the last fitInView
    fitted,            \* QGraphicsView.transform(): the scales <<m11, m22>>
                       \*   the last fitInView set
    cur_scale,         \* GraphicsView._cur_scale
    viewport_anchors   \* GraphicsView._viewport_anchors

zoomVars == <<time_lines, transform, fitted, cur_scale, viewport_anchors>>

\* PatientRetinalFundusJournal and PatientBoneAgeJournal (table_visualizer.py
\* of the retinal fundus and of the bone age plugin)
VARIABLES
    next_record,       \* the records created so far are 1..(next_record - 1)
    records,           \* the records list of each journal
    jstack,            \* add_record calls in progress, innermost last
    jev                \* what the last journal step did

journalVars == <<next_record, records, jstack, jev>>

\* LayeredImageViewerTool (tools/viewer/base.py) and the three layers it
\* works on, named by their role: "image", "mask", "tool_mask"
VARIABLES
    t_layers,          \* the roles whose layer the viewer's LayeredImage has
    t_image,           \* ImageLayer._image of the layer of each role
    t_max_image,       \* the Image objects created so far are 1..t_max_image
    t_mask_layer,      \* LayeredImageViewerTool.mask_layer
    t_tool_mask_layer, \* LayeredImageViewerTool.tool_mask_layer
    t_update_masks,    \* connections mask_layer.image_updated -> _update_masks
    t_on_updated,      \* connections image_layer.image_updated ->
                       \*   _on_layer_image_updated
    t_updates,         \* images assigned by the application so far
    tstack,            \* tool and setter calls in progress, innermost last
    tev                \* what the last tool step did

toolVars == <<t_layers, t_image, t_max_image, t_mask_layer, t_tool_mask_layer,
              t_update_masks, t_on_updated, t_updates, tstack, tev>>
\* GraphicsView: the deferred anchoring of the viewport (graphics_view.py)
VARIABLES
    viewport_anchoring_scheduled,  \* GraphicsView._viewport_anchoring_scheduled
    viewport_anchoring,            \* GraphicsView._viewport_anchoring
    apc,               \* where the view is: "idle" in the event loop, or
                       \*   "fit_in_view" inside paintEvent > _anchor_viewport
    aev                \* the last event handler of the view that ran

anchorVars == <<viewport_anchoring_scheduled, viewport_anchoring, apc, aev>>

\* PatientRetinalFundusIllustratedJournalViewer (retinal fundus
\* table_visualizer.py)
VARIABLES
    shown_record,      \* the record whose layered image the viewer shows, 0: none
    layer_views,       \* name -> Visibility of the layer views of the viewer
    layer_visibility_by_name,  \* _layer_visibility_by_name
    sev                \* the last step of the illustrated journal viewer

selectVars == <<shown_record, layer_views, layer_visibility_by_name, sev>>

\* PluginManager (plugin_manager.py)
VARIABLES
    plugins,           \* the Plugin instances constructed, by id: their class
                       \*   and the number of enable() calls
    created_plugins,   \* PluginManager._created_plugins: full name -> id
    enabled_plugins,   \* PluginManager._enabled_plugins: full name -> id
    aliases_plugins,   \* PluginManager._aliases_plugins: alias -> id
    returned,          \* <<full_name, replace_full_name>> of an expression ->
                       \*   what enable_plugin returned last for it
    pev                \* the last enable_plugin call

pluginVars == <<plugins, created_plugins, enabled_plugins, aliases_plugins,
                returned, pev>>

lateVars == <<toolVars, anchorVars, selectVars, pluginVars>>
restVars == <<coordVars, zoomVars, journalVars, lateVars>>

layerVars == <<max_id, name, image, path, palette, visibility,
               pixels_modified, shape_changed>>
coreVars == <<layerVars, layers, layer_by_name, stack, ev>>
viewLayerVars == <<item_max_id, v_image, v_name, v_visible, v_opacity, v_cache,
                   v_pixels_modified>>
itemVars == <<item_layers, names_layers, active_layer, bounding_rect,
              active_updated>>
viewVars == <<viewLayerVars, itemVars, shape, vstack, vev>>
vars == <<max_id, name, image, path, palette, visibility, pixels_modified,
          shape_changed, pixels, layers, layer_by_name, stack, ev, viewVars,
          restVars>>

\* ------------------------------------------------------- Python helpers
Layers == 0..(max_id - 1)

Range(s) == {s[i] : i \in DOMAIN s}

\* list.index(x), 1-based here; the caller guards x \in Range(s)
ListIndex(s, x) == CHOOSE i \in DOMAIN s : s[i] = x /\ \A j \in 1..(i - 1) : s[j] # x

\* list.remove(x): removes the first occurrence
ListRemove(s, x) ==
    LET k == ListIndex(s, x)
    IN  [i \in 1..(Len(s) - 1) |-> IF i < k THEN s[i] ELSE s[i + 1]]

DictGet(d, k)    == IF k \in DOMAIN d THEN d[k] ELSE NoLayer
DictSet(d, k, v) == [n \in DOMAIN d \cup {k} |-> IF n = k THEN v ELSE d[n]]
DictDel(d, k)    == [n \in DOMAIN d \ {k} |-> d[n]]

\* Signal.connect: Qt keeps duplicate connections
Connect(conn, l, i) == [conn EXCEPT ![l][i] = @ + 1]
\* a setter that forgets to disconnect
DisconnectNothing(conn, l, i) == conn

\* Signal.disconnect: one call breaks every connection of that signal to
\* that receiver
Disconnect(conn, l, i) == [conn EXCEPT ![l][i] = 0]

\* --------------------------------------------------------- frames, events
NoFrame == [op |-> "", via |-> "", pc |-> "", layer |-> NoLayer, index |-> -1,
            image |-> None, name |-> "", pre_len |-> 0, pre_layer |-> NoLayer,
            nested |-> 0]

NoEv == [call |-> "", name |-> "", sig |-> "", err |-> "", warn |-> FALSE,
         layer |-> NoLayer, index |-> -1, image |-> None, old |-> None,
         done |-> "", ret |-> NoLayer, fr |-> NoFrame, repub |-> <<>>,
         nth |-> 0]

Roles == {"image", "mask", "tool_mask"}

NoToolFrame == [op |-> "", pc |-> "", role |-> "", pending |-> 0, ran |-> 0,
                pre_mask |-> None, pre_max |-> 0]

NoToolEv == [call |-> "", sig |-> "", role |-> "", done |-> "", ran |-> 0,
             fr |-> NoToolFrame]

\* GraphicsView._reset_viewport_anchors: [[0, 0], [1, 1]], the whole scene
ResetAnchors == <<>>

NoAnchorEv == [call |-> "", scheduled |-> FALSE, anchored |-> 0, scrolls |-> 0]

NoSelectEv == [call |-> "", record |-> 0, restored |-> {}]

NoPluginEv == [call |-> "", expr |-> <<>>, result |-> 0, before |-> 0,
               created |-> FALSE, enables |-> 0, asserted |-> TRUE]

NoViewFrame == [op |-> "", view |-> NoLayer, image |-> None, nested |-> 0]

NoViewEv == [call |-> "", sig |-> "", err |-> "", slot_err |-> "", view |-> NoLayer,
             image |-> None, old |-> None, done |-> "", ret |-> NoBitmap,
             computed |-> FALSE, drawn |-> <<>>, updated |-> <<>>,
             name |-> "", fr |-> NoViewFrame]

Top == stack[Len(stack)]

\* handler code (or, with an empty stack, the application) may make a call
CanCall ==
    /\ Len(stack) < MaxDepth
    /\ stack # <<>> => Top.nested < MaxNested

\* the frame whose handler made the call records it
MarkNested(st) == IF st = <<>> THEN st ELSE [st EXCEPT ![Len(st)].nested = @ + 1]

Pop(st) == SubSeq(st, 1, Len(st) - 1)

\* add_layer frames that have not appended yet
PendingAdds == Cardinality({k \in DOMAIN stack : stack[k].pc = "layer_adding"})

Fresh(i) ==
    /\ \A l \in Layers : image[l] # i /\ pixels_modified[l][i] = 0
                                      /\ shape_changed[l][i] = 0
    /\ \A k \in DOMAIN stack : stack[k].image # i

\* every layer's republication count for one pixels_modified emission of i
Republished(i) == [l \in Layers |-> pixels_modified[l][i]]

Init ==
    /\ max_id = 0
    /\ name = <<>>
    /\ image = <<>>
    /\ path = <<>>
    /\ palette = <<>>
    /\ visibility = <<>>
    /\ pixels_modified = <<>>
    /\ shape_changed = <<>>
    /\ pixels = [i \in Images |-> 0]
    /\ layers = <<>>
    /\ layer_by_name = <<>>
    /\ stack = <<>>
    /\ ev = NoEv
    /\ item_max_id = 0
    /\ v_image = <<>>
    /\ v_name = <<>>
    /\ v_visible = <<>>
    /\ v_opacity = <<>>
    /\ v_cache = <<>>
    /\ v_pixels_modified = <<>>
    /\ item_layers = <<>>
    /\ names_layers = <<>>
    /\ active_layer = NoLayer
    /\ bounding_rect = NoRect
    /\ active_updated = <<>>
    /\ shape = [i \in Images |-> 0]
    /\ vstack = <<>>
    /\ vev = NoViewEv
    /\ pixel = <<0, 0>>
    /\ scroll = <<0, 0>>
    /\ viewport_pos = NoPos
    /\ coords = NoPos
    /\ next_record = 1
    /\ records = [j \in Journals |-> <<>>]
    /\ jstack = <<>>
    /\ jev = NoJournalEv
    /\ time_lines = <<>>
    /\ transform = Identity
    /\ fitted = <<1, 1>>
    /\ cur_scale = <<1, Identity>>
    /\ viewport_anchors = ResetAnchors
    /\ viewport_anchoring_scheduled = FALSE
    /\ viewport_anchoring = FALSE
    /\ apc = "idle"
    /\ aev = NoAnchorEv
    /\ shown_record = 0
    /\ layer_views = <<>>
    /\ layer_visibility_by_name = <<>>
    /\ sev = NoSelectEv
    /\ plugins = <<>>
    /\ created_plugins = <<>>
    /\ enabled_plugins = <<>>
    /\ aliases_plugins = <<>>
    /\ returned = <<>>
    /\ pev = NoPluginEv
    /\ t_layers = {"image"}
    /\ t_image = [r \in Roles |-> IF r = "image" THEN 1 ELSE None]
    /\ t_max_image = 1
    /\ t_mask_layer = ""
    /\ t_tool_mask_layer = ""
    /\ t_update_masks = 0
    /\ t_on_updated = 0
    /\ t_updates = 0
    /\ tstack = <<>>
    /\ tev = NoToolEv

\* ------------------------------------------------------------ ImageLayer
\* a constructor whose default name leaves the id out
ImageLayerUnnumbered(img, nm, vis) ==
    LET id == max_id IN
    /\ max_id' = max_id + 1
    /\ image' = image @@ (id :> img)
    /\ path' = path @@ (id :> IF img # None /\ ImagePath(img) # None
                                 THEN Parent(ImagePath(img)) ELSE None)
    /\ palette' = palette @@ (id :> IF img # None THEN ImagePalette(img) ELSE None)
    /\ pixels_modified' = pixels_modified @@
                            (id :> [i \in Images |-> IF i = img THEN 1 ELSE 0])
    /\ shape_changed' = shape_changed @@
                            (id :> [i \in Images |-> IF i = img THEN 1 ELSE 0])
    /\ name' = name @@ (id :> IF nm # "" THEN nm ELSE "Layer")
    /\ visibility' = visibility @@ (id :> vis)

\* ImageLayer.__init__(image, name, visibility): the new object has id
\* max_id; no handler can be connected to it yet, so the image setter it
\* runs emits image_updated to nobody.
ImageLayer(img, nm, vis) ==
    LET id == max_id IN
    /\ max_id' = max_id + 1
    /\ image' = image @@ (id :> img)
    /\ path' = path @@ (id :> IF img # None /\ ImagePath(img) # None
                                 THEN Parent(ImagePath(img)) ELSE None)
    /\ palette' = palette @@ (id :> IF img # None THEN ImagePalette(img) ELSE None)
    /\ pixels_modified' = pixels_modified @@
                            (id :> [i \in Images |-> IF i = img THEN 1 ELSE 0])
    /\ shape_changed' = shape_changed @@
                            (id :> [i \in Images |-> IF i = img THEN 1 ELSE 0])
    /\ name' = name @@ (id :> IF nm # "" THEN nm ELSE "Layer " \o ToString(id))
    /\ visibility' = visibility @@ (id :> vis)

\* a caller constructs a layer object without adding it
NewImageLayer(img, nm, vis) ==
    /\ CanCall
    /\ UNCHANGED <<viewVars, restVars>>
    /\ max_id < MaxLayers
    /\ ImageLayer(img, nm, vis)
    /\ stack' = MarkNested(stack)
    /\ ev' = [NoEv EXCEPT !.call = "ImageLayer", !.layer = max_id, !.image = img,
                          !.done = "ImageLayer", !.ret = max_id]
    /\ UNCHANGED <<pixels, layers, layer_by_name>>

\* an image setter without the early return for the image already held
image_setter_unchecked(l, value, via, nm) ==
    LET old == image[l]
        fr  == [NoFrame EXCEPT !.op = "image", !.via = via, !.pc = "image_updated",
                               !.layer = l, !.image = value, !.name = nm,
                               !.pre_len = Len(layers),
                               !.pre_layer = DictGet(layer_by_name, nm)]
    IN
    /\ pixels_modified' = IF old # None THEN Disconnect(pixels_modified, l, old)
                                        ELSE pixels_modified
    /\ shape_changed' = IF old # None THEN Disconnect(shape_changed, l, old)
                                      ELSE shape_changed
    /\ image' = [image EXCEPT ![l] = value]
    /\ stack' = Append(MarkNested(stack), fr)
    /\ ev' = [NoEv EXCEPT !.call = via, !.name = nm, !.sig = "image_updated",
                          !.layer = l, !.image = value, !.old = old]
    /\ UNCHANGED <<max_id, name, path, palette, visibility, pixels,
                   layers, layer_by_name>>

\* ImageLayer.image setter, lines 62-72: up to the emission of image_updated.
\* A disconnect of a signal that is not connected raises RuntimeError or
\* only warns, depending on the PySide build.
image_setter(l, value, via, nm) ==
    LET old == image[l]
        fr  == [NoFrame EXCEPT !.op = "image", !.via = via, !.pc = "image_updated",
                               !.layer = l, !.image = value, !.name = nm,
                               !.pre_len = Len(layers),
                               !.pre_layer = DictGet(layer_by_name, nm)]
    IN
    IF old = value
    THEN /\ stack' = MarkNested(stack)
         /\ ev' = [NoEv EXCEPT !.call = via, !.name = nm, !.layer = l,
                               !.image = value, !.old = old,
                               !.done = via, !.ret = l, !.fr = fr]
         /\ UNCHANGED <<layerVars, pixels, layers, layer_by_name>>
    ELSE \/ /\ old # None
            /\ pixels_modified[l][old] = 0
            /\ stack' = MarkNested(stack)
            /\ ev' = [NoEv EXCEPT !.call = via, !.name = nm, !.layer = l,
                                  !.image = value, !.old = old,
                                  !.err = "RuntimeError"]
            /\ UNCHANGED <<layerVars, pixels, layers, layer_by_name>>
         \/ /\ pixels_modified' = IF old # None THEN Disconnect(pixels_modified, l, old)
                                                ELSE pixels_modified
            /\ shape_changed' = IF old # None THEN Disconnect(shape_changed, l, old)
                                              ELSE shape_changed
            /\ image' = [image EXCEPT ![l] = value]
            /\ stack' = Append(MarkNested(stack), fr)
            /\ ev' = [NoEv EXCEPT !.call = via, !.name = nm, !.sig = "image_updated",
                                  !.layer = l, !.image = value, !.old = old,
                                  !.warn = (old # None /\ pixels_modified[l][old] = 0)]
            /\ UNCHANGED <<max_id, name, path, palette, visibility, pixels,
                           layers, layer_by_name>>

\* layer.image = value
SetImage(l, value) ==
    /\ CanCall
    /\ UNCHANGED <<viewVars, restVars>>
    /\ image_setter(l, value, "image", "")

\* ImageLayer.image setter, lines 74-79: after the image_updated handlers
SetImageConnect ==
    /\ stack # <<>>
    /\ UNCHANGED <<viewVars, restVars>>
    /\ Top.op = "image"
    /\ LET l   == Top.layer
           cur == image[l]
       IN  /\ path' = IF cur # None /\ ImagePath(cur) # None
                      THEN [path EXCEPT ![l] = Parent(ImagePath(cur))] ELSE path
           /\ palette' = IF cur # None THEN [palette EXCEPT ![l] = ImagePalette(cur)]
                                       ELSE palette
           /\ pixels_modified' = IF cur # None THEN Connect(pixels_modified, l, cur)
                                               ELSE pixels_modified
           /\ shape_changed' = IF cur # None THEN Connect(shape_changed, l, cur)
                                             ELSE shape_changed
           /\ ev' = [NoEv EXCEPT !.done = Top.via, !.layer = l, !.ret = l, !.fr = Top]
    /\ stack' = Pop(stack)
    /\ UNCHANGED <<max_id, name, image, visibility, pixels, layers, layer_by_name>>

\* Image.emit_pixels_modified(): every connected layer republishes
EmitPixelsModified(i) ==
    /\ CanCall
    /\ UNCHANGED <<viewVars, restVars>>
    /\ stack' = MarkNested(stack)
    /\ ev' = [NoEv EXCEPT !.call = "emit_pixels_modified", !.sig = "pixels_modified",
                          !.image = i, !.repub = Republished(i)]
    /\ UNCHANGED <<layerVars, pixels, layers, layer_by_name>>

\* ---------------------------------------------------------- LayeredImage
\* LayeredImage.add_layer, lines 117-118: index taken, layer_adding emitted
add_layer_enter(layer, via, nm, img) ==
    /\ stack' = Append(MarkNested(stack),
                       [NoFrame EXCEPT !.op = "add_layer", !.via = via,
                                       !.pc = "layer_adding", !.layer = layer,
                                       !.index = Len(layers), !.image = img,
                                       !.name = nm, !.pre_len = Len(layers),
                                       !.pre_layer = DictGet(layer_by_name, nm)])
    /\ ev' = [NoEv EXCEPT !.call = via, !.name = nm, !.sig = "layer_adding",
                          !.layer = layer, !.index = Len(layers), !.image = img]
    /\ UNCHANGED <<pixels, layers, layer_by_name>>

AddLayer(layer) ==
    /\ CanCall
    /\ UNCHANGED <<viewVars, restVars>>
    /\ Len(layers) + PendingAdds < MaxSeq
    /\ add_layer_enter(layer, "add_layer", name[layer], None)
    /\ UNCHANGED layerVars

\* LayeredImage.add_layer, lines 119-121, after the layer_adding handlers:
\* both containers are updated, then layer_added is emitted
AddLayerAppend ==
    /\ stack # <<>>
    /\ UNCHANGED <<viewVars, restVars>>
    /\ Top.op = "add_layer"
    /\ Top.pc = "layer_adding"
    /\ layers' = Append(layers, Top.layer)
    /\ layer_by_name' = DictSet(layer_by_name, name[Top.layer], Top.layer)
    /\ stack' = [stack EXCEPT ![Len(stack)].pc = "layer_added"]
    /\ ev' = [NoEv EXCEPT !.sig = "layer_added", !.layer = Top.layer,
                          !.index = Top.index]
    /\ UNCHANGED <<layerVars, pixels>>

\* add_layer returns after the layer_added handlers
AddLayerReturn ==
    /\ stack # <<>>
    /\ UNCHANGED <<viewVars, restVars>>
    /\ Top.op = "add_layer"
    /\ Top.pc = "layer_added"
    /\ stack' = Pop(stack)
    /\ ev' = [NoEv EXCEPT !.done = Top.via, !.layer = Top.layer, !.ret = Top.layer,
                          !.fr = Top]
    /\ UNCHANGED <<layerVars, pixels, layers, layer_by_name>>

\* LayeredImage.add_layer_from_image(image, name, visibility)
add_layer_from_image(img, nm, vis, via) ==
    /\ max_id < MaxLayers
    /\ Len(layers) + PendingAdds < MaxSeq
    /\ ImageLayer(img, nm, vis)
    /\ add_layer_enter(max_id, via, nm, img)

AddLayerFromImage(img, nm, vis) ==
    /\ CanCall
    /\ UNCHANGED <<viewVars, restVars>>
    /\ add_layer_from_image(img, nm, vis, "add_layer_from_image")

\* add_layer_or_modify_image without the lookup: a layer is added every time
AddLayerOrModifyImageAlwaysAdds(nm, img) ==
    /\ CanCall
    /\ UNCHANGED <<viewVars, restVars>>
    /\ add_layer_from_image(img, nm, TRUE, "add_layer_or_modify_image")

\* add_layer_or_modify_image that adds the layer it found once more
AddLayerOrModifyImageReAdds(nm, img) ==
    /\ CanCall
    /\ UNCHANGED <<viewVars, restVars>>
    /\ LET layer == DictGet(layer_by_name, nm)
       IN  IF layer = NoLayer
           THEN add_layer_from_image(img, nm, TRUE, "add_layer_or_modify_image")
           ELSE /\ Len(layers) + PendingAdds < MaxSeq
                /\ add_layer_enter(layer, "add_layer_or_modify_image", nm, img)
                /\ UNCHANGED layerVars

\* LayeredImage.add_layer_or_modify_image(name, image)
AddLayerOrModifyImage(nm, img) ==
    /\ CanCall
    /\ UNCHANGED <<viewVars, restVars>>
    /\ LET layer == DictGet(layer_by_name, nm)
       IN  IF layer = NoLayer
           THEN add_layer_from_image(img, nm, TRUE, "add_layer_or_modify_image")
           ELSE image_setter(layer, img, "add_layer_or_modify_image", nm)

\* the notification the setter of Image.pixels emits after it replaced the
\* buffer by one of the same shape
pixels_setter_signal == "pixels_modified"

\* LayeredImage.add_layer_or_modify_pixels(name, pixels, image_type, palette,
\* visibility); image_type(pixels, palette) is a new Image object.  In the
\* last branch the step is layer.image.pixels = pixels, line 151.
AddLayerOrModifyPixels(nm, px, vis) ==
    /\ CanCall
    /\ UNCHANGED <<viewVars, restVars>>
    /\ LET layer == DictGet(layer_by_name, nm)
       IN  IF layer = NoLayer
           THEN \E i \in Images :
                   /\ Fresh(i)
                   /\ pixels' = [pixels EXCEPT ![i] = px]
                   /\ max_id < MaxLayers
                   /\ Len(layers) + PendingAdds < MaxSeq
                   /\ ImageLayer(i, nm, vis)
                   /\ stack' = Append(MarkNested(stack),
                         [NoFrame EXCEPT !.op = "add_layer",
                                         !.via = "add_layer_or_modify_pixels",
                                         !.pc = "layer_adding", !.layer = max_id,
                                         !.index = Len(layers), !.image = i,
                                         !.name = nm, !.pre_len = Len(layers)])
                   /\ ev' = [NoEv EXCEPT !.call = "add_layer_or_modify_pixels",
                                         !.name = nm, !.sig = "layer_adding", !.layer = max_id,
                                         !.index = Len(layers), !.image = i]
                   /\ UNCHANGED <<layers, layer_by_name>>
           ELSE IF image[layer] = None
           THEN \E i \in Images :
                   /\ Fresh(i)
                   /\ pixels' = [pixels EXCEPT ![i] = px]
                   /\ image' = [image EXCEPT ![layer] = i]
                   /\ stack' = Append(MarkNested(stack),
                         [NoFrame EXCEPT !.op = "image",
                                         !.via = "add_layer_or_modify_pixels",
                                         !.pc = "image_updated", !.layer = layer,
                                         !.image = i, !.name = nm,
                                         !.pre_len = Len(layers),
                                         !.pre_layer = layer])
                   /\ ev' = [NoEv EXCEPT !.call = "add_layer_or_modify_pixels",
                                         !.name = nm, !.sig = "image_updated", !.layer = layer,
                                         !.image = i]
                   /\ UNCHANGED <<max_id, name, path, palette, visibility,
                                  pixels_modified, shape_changed, layers,
                                  layer_by_name>>
           ELSE /\ pixels' = [pixels EXCEPT ![image[layer]] = px]
                /\ stack' = Append(MarkNested(stack),
                      [NoFrame EXCEPT !.op = "pixels",
                                      !.via = "add_layer_or_modify_pixels",
                                      !.pc = "pixels", !.layer = layer,
                                      !.image = image[layer], !.name = nm,
                                      !.pre_len = Len(layers),
                                      !.pre_layer = layer])
                /\ ev' = [NoEv EXCEPT !.call = "add_layer_or_modify_pixels",
                                      !.name = nm, !.sig = pixels_setter_signal,
                                      !.layer = layer, !.image = image[layer],
                                      !.repub = Republished(image[layer]),
                                      !.nth = 1]
                /\ UNCHANGED <<layerVars, layers, layer_by_name>>

\* add_layer_or_modify_pixels, lines 152-153, after the handlers of the
\* pixels setter's notification: layer.image.emit_pixels_modified(), and
\* the layer is returned
AddLayerOrModifyPixelsEmit ==
    /\ stack # <<>>
    /\ UNCHANGED <<viewVars, restVars>>
    /\ Top.op = "pixels"
    /\ stack' = Pop(stack)
    /\ ev' = [NoEv EXCEPT !.sig = "pixels_modified", !.layer = Top.layer,
                          !.image = Top.image,
                          !.repub = Republished(Top.image),
                          !.nth = 2,
                          !.done = "add_layer_or_modify_pixels",
                          !.ret = Top.layer, !.fr = Top]
    /\ UNCHANGED <<layerVars, pixels, layers, layer_by_name>>

\* remove_layer that looks the layer up through the name index instead of
\* the sequence
RemoveLayerByName(layer) ==
    /\ CanCall
    /\ UNCHANGED <<viewVars, restVars>>
    /\ IF name[layer] \notin DOMAIN layer_by_name
       THEN /\ stack' = MarkNested(stack)
            /\ ev' = [NoEv EXCEPT !.call = "remove_layer", !.layer = layer,
                                  !.err = "KeyError"]
       ELSE /\ stack' = Append(MarkNested(stack),
                         [NoFrame EXCEPT !.op = "remove_layer", !.via = "remove_layer",
                                         !.pc = "layer_removing", !.layer = layer,
                                         !.index = 0, !.name = name[layer],
                                         !.pre_len = Len(layers),
                                         !.pre_layer = layer_by_name[name[layer]]])
            /\ ev' = [NoEv EXCEPT !.call = "remove_layer", !.sig = "layer_removing",
                                  !.layer = layer, !.index = 0]
    /\ UNCHANGED <<layerVars, pixels, layers, layer_by_name>>

\* LayeredImage.remove_layer, lines 156-157: list.index raises ValueError for
\* a layer that is not in the list; otherwise layer_removing is emitted
RemoveLayer(layer) ==
    /\ CanCall
    /\ UNCHANGED <<viewVars, restVars>>
    /\ IF layer \notin Range(layers)
       THEN /\ stack' = MarkNested(stack)
            /\ ev' = [NoEv EXCEPT !.call = "remove_layer", !.layer = layer,
                                  !.err = "ValueError"]
       ELSE /\ stack' = Append(MarkNested(stack),
                         [NoFrame EXCEPT !.op = "remove_layer", !.via = "remove_layer",
                                         !.pc = "layer_removing", !.layer = layer,
                                         !.index = ListIndex(layers, layer) - 1,
                                         !.name = name[layer],
                                         !.pre_len = Len(layers),
                                         !.pre_layer = DictGet(layer_by_name, name[layer])])
            /\ ev' = [NoEv EXCEPT !.call = "remove_layer", !.sig = "layer_removing",
                                  !.layer = layer,
                                  !.index = ListIndex(layers, layer) - 1]
    /\ UNCHANGED <<layerVars, pixels, layers, layer_by_name>>

\* LayeredImage.remove_layer, lines 158-160, after the layer_removing
\* handlers: list.remove raises ValueError if a handler removed the layer,
\* del raises KeyError if the name is no longer a key
RemoveLayerDelete ==
    /\ stack # <<>>
    /\ UNCHANGED <<viewVars, restVars>>
    /\ Top.op = "remove_layer"
    /\ Top.pc = "layer_removing"
    /\ LET layer == Top.layer IN
       IF layer \notin Range(layers)
       THEN /\ stack' = Pop(stack)
            /\ ev' = [NoEv EXCEPT !.layer = layer, !.err = "ValueError", !.fr = Top]
            /\ UNCHANGED <<layers, layer_by_name>>
       ELSE IF name[layer] \notin DOMAIN layer_by_name
       THEN /\ layers' = ListRemove(layers, layer)
            /\ stack' = Pop(stack)
            /\ ev' = [NoEv EXCEPT !.layer = layer, !.err = "KeyError", !.fr = Top]
            /\ UNCHANGED layer_by_name
       ELSE /\ layers' = ListRemove(layers, layer)
            /\ layer_by_name' = DictDel(layer_by_name, name[layer])
            /\ stack' = [stack EXCEPT ![Len(stack)].pc = "layer_removed"]
            /\ ev' = [NoEv EXCEPT !.sig = "layer_removed", !.layer = layer,
                                  !.index = Top.index]
    /\ UNCHANGED <<layerVars, pixels>>

\* remove_layer returns after the layer_removed handlers
RemoveLayerReturn ==
    /\ stack # <<>>
    /\ UNCHANGED <<viewVars, restVars>>
    /\ Top.op = "remove_layer"
    /\ Top.pc = "layer_removed"
    /\ stack' = Pop(stack)
    /\ ev' = [NoEv EXCEPT !.done = "remove_layer", !.layer = Top.layer, !.fr = Top]
    /\ UNCHANGED <<layerVars, pixels, layers, layer_by_name>>

\* ------------------------------------------------------------------ Next
\* The layer stack: layers are constructed, added and removed, by the
\* application and by handlers of the four layer signals.
Next ==
    \/ \E nm \in Names : NewImageLayer(None, nm, TRUE)
    \/ \E l \in Layers : AddLayer(l)
    \/ AddLayerAppend
    \/ AddLayerReturn
    \/ \E nm \in Names : AddLayerFromImage(None, nm, TRUE)
    \/ \E l \in Layers : RemoveLayer(l)
    \/ RemoveLayerDelete
    \/ RemoveLayerReturn

Spec == Init /\ [][Next]_vars

\* One layer's image: images are assigned and modified, by the application
\* and by handlers of image_updated.
NextImage ==
    \/ \E i \in Images \cup {None}, vis \in BOOLEAN : NewImageLayer(i, "", vis)
    \/ \E l \in Layers, i \in Images \cup {None} : SetImage(l, i)
    \/ SetImageConnect
    \/ \E i \in Images : EmitPixelsModified(i)

SpecImage == Init /\ [][NextImage]_vars

\* Named layers are added or modified in place; a named layer created from
\* pixels is added hidden, and images are assigned to named layers.
NextModify ==
    \/ \E nm \in Names, i \in Images \cup {None} : AddLayerOrModifyImage(nm, i)
    \/ \E nm \in Names, px \in Pixels : AddLayerOrModifyPixels(nm, px, nm = "")
    \/ AddLayerOrModifyPixelsEmit
    \/ \E l \in Layers, i \in Images \cup {None} : name[l] \in Names /\ SetImage(l, i)
    \/ AddLayerAppend
    \/ AddLayerReturn
    \/ SetImageConnect

SpecModify == Init /\ [][NextModify]_vars

\* ---------------------------------------------------------------- claims
LayerSignals == {"layer_adding", "layer_added", "layer_removing", "layer_removed"}

\* the names of the layers in the sequence that share the name of layer l
SameNamed(l) == {k \in DOMAIN layers : name[layers[k]] = name[l]}

\* C1: the name index and the layer sequence agree: they have the same size,
\* every layer of the sequence is stored in the index under its own name,
\* and no two positions of the sequence hold the same name.
C1_NameIndexAgrees ==
    /\ Cardinality(DOMAIN layer_by_name) = Len(layers)
    /\ \A k \in DOMAIN layers :
          DictGet(layer_by_name, name[layers[k]]) = layers[k]
    /\ \A j, k \in DOMAIN layers : j # k => name[layers[j]] # name[layers[k]]

\* C2: add_layer with a layer whose name is already used by a layer of the
\* LayeredImage fails with a validation error, emits neither layer_adding
\* nor layer_added and leaves the sequence and the name index unchanged.
C2_DuplicateNameRejected ==
    [][(ev'.call = "add_layer" /\ SameNamed(ev'.layer) # {})
         => /\ ev'.err = "ValidationError"
            /\ ev'.sig \notin LayerSignals
            /\ Len(stack') = Len(stack)
            /\ layers' = layers
            /\ layer_by_name' = layer_by_name]_vars

\* C3: layer_adding is emitted while the layer is neither in the sequence
\* nor reachable through layer_by_name, layer_added while it is in the
\* sequence and layer_by_name(layer.name) returns it.
C3_AddNotificationWindow ==
    /\ ev.sig = "layer_adding"
         => /\ ev.layer \notin Range(layers)
            /\ DictGet(layer_by_name, name[ev.layer]) # ev.layer
    /\ ev.sig = "layer_added"
         => /\ ev.layer \in Range(layers)
            /\ DictGet(layer_by_name, name[ev.layer]) = ev.layer

\* C4: the index passed to layer_added (the same value was passed to
\* layer_adding) is the position of the layer, the last one, at the moment
\* layer_added is emitted.
C4_IndexIsFinalPosition ==
    ev.sig = "layer_added"
      => /\ ev.index = Len(layers) - 1
         /\ layers[ev.index + 1] = ev.layer

\* C5: layer_removing is emitted while the layer is in the sequence and
\* layer_by_name(layer.name) returns it, layer_removed while it is in
\* neither.
C5_RemoveNotificationWindow ==
    /\ ev.sig = "layer_removing"
         => /\ ev.layer \in Range(layers)
            /\ DictGet(layer_by_name, name[ev.layer]) = ev.layer
    /\ ev.sig = "layer_removed"
         => /\ ev.layer \notin Range(layers)
            /\ DictGet(layer_by_name, name[ev.layer]) # ev.layer

\* C6: remove_layer with a layer that is not in the sequence raises the
\* not-found error of list.index at once: no signal is emitted, no frame is
\* entered, the sequence and the name index are unchanged.
C6_RemoveNonMemberFails ==
    [][(ev'.call = "remove_layer" /\ ev'.layer \notin Range(layers))
         => /\ ev'.err = "ValueError"
            /\ ev'.sig = ""
            /\ Len(stack') = Len(stack)
            /\ layers' = layers
            /\ layer_by_name' = layer_by_name]_vars

\* C6 witness: a non-member was refused while a member of the same name
\* stays in the name index
C6_Witness ==
    /\ ev.call = "remove_layer"
    /\ ev.err = "ValueError"
    /\ ev.layer \notin Range(layers)
    /\ SameNamed(ev.layer) # {}
    /\ name[ev.layer] \in DOMAIN layer_by_name

\* C7, as claimed for every name: when add_layer_or_modify_image(name, image)
\* returns (its handlers having called nothing), layer_by_name(name) is the
\* returned layer and holds the image passed, the sequence grew by one if
\* the name was absent before the call and not at all otherwise, and a layer
\* found under the name before the call is the one returned.
C7_AddOrModifyAnyName ==
    (ev.done = "add_layer_or_modify_image" /\ ev.fr.nested = 0)
      => /\ DictGet(layer_by_name, ev.fr.name) = ev.ret
         /\ image[ev.ret] = ev.fr.image
         /\ Len(layers) = ev.fr.pre_len + (IF ev.fr.pre_layer = NoLayer THEN 1 ELSE 0)
         /\ ev.fr.pre_layer # NoLayer => ev.ret = ev.fr.pre_layer

\* C7, amended: the above holds for every non-empty name; for the empty name
\* every call adds a new layer, named "Layer <id>", holding the image.
C7_AddOrModifyNamed ==
    (ev.done = "add_layer_or_modify_image" /\ ev.fr.nested = 0)
      => /\ ev.fr.name # ""
            => /\ DictGet(layer_by_name, ev.fr.name) = ev.ret
               /\ image[ev.ret] = ev.fr.image
               /\ Len(layers) = ev.fr.pre_len
                                  + (IF ev.fr.pre_layer = NoLayer THEN 1 ELSE 0)
               /\ ev.fr.pre_layer # NoLayer => ev.ret = ev.fr.pre_layer
         /\ ev.fr.name = ""
            => /\ Len(layers) = ev.fr.pre_len + 1
               /\ name[ev.ret] = "Layer " \o ToString(ev.ret)
               /\ DictGet(layer_by_name, name[ev.ret]) = ev.ret
               /\ image[ev.ret] = ev.fr.image

\* C7 witness: a later call on a name in use returned after replacing the
\* image of the layer found
C7_Witness ==
    /\ ev.done = "add_layer_or_modify_image"
    /\ ev.fr.nested = 0
    /\ ev.fr.name = "mask"
    /\ ev.fr.op = "image"
    /\ ev.fr.pre_layer = ev.ret
    /\ ev.fr.image # None
    /\ image[ev.ret] = ev.fr.image

\* C8: a step of an in-place modification (the image setter, or
\* add_layer_or_modify_image / add_layer_or_modify_pixels on a name in use,
\* and the setter's continuation) leaves the sequence, the name index and
\* every layer's visibility unchanged and emits none of the layer signals.
C8_InPlaceKeepsPresence ==
    [][(\/ ev'.call = "image"
        \/ /\ ev'.call \in {"add_layer_or_modify_image", "add_layer_or_modify_pixels"}
           /\ DictGet(layer_by_name, ev'.name) # NoLayer
        \/ /\ ev'.done # ""
           /\ ev'.fr.op = "image")
         => /\ layers' = layers
            /\ layer_by_name' = layer_by_name
            /\ visibility' = visibility
            /\ ev'.sig \notin LayerSignals]_vars

\* C8 witness: add_layer_or_modify_image replaced the image of a present,
\* invisible layer
C8_Witness ==
    /\ ev.call = "add_layer_or_modify_image"
    /\ ev.sig = "image_updated"
    /\ ev.old # None
    /\ ev.layer \in Range(layers)
    /\ ~visibility[ev.layer]

\* C9: when image_updated is emitted for an image that replaced another one,
\* the layer is connected (once) to pixels_modified and shape_changed of the
\* new image and to those of no other image.
C9_ConnectedBeforeImageUpdated ==
    (ev.sig = "image_updated" /\ ev.old # None /\ ev.image # None)
      => \A i \in Images :
            /\ pixels_modified[ev.layer][i] = (IF i = ev.image THEN 1 ELSE 0)
            /\ shape_changed[ev.layer][i] = (IF i = ev.image THEN 1 ELSE 0)

\* C10: no disconnect is attempted on a signal that is not connected, and
\* when the outermost assignment returns after a handler assigned another
\* image, the layer is connected exactly once to the two signals of its
\* current image and to no other image.
C10_ReentrantSafe ==
    /\ ~ev.warn
    /\ ev.err # "RuntimeError"
    /\ (ev.done = "image" /\ stack = <<>> /\ ev.fr.nested > 0)
         => \A i \in Images :
               /\ pixels_modified[ev.layer][i] = (IF i = image[ev.layer] THEN 1 ELSE 0)
               /\ shape_changed[ev.layer][i] = (IF i = image[ev.layer] THEN 1 ELSE 0)

\* the path and the palette a layer mirrors from image i
MirroredPath(i)    == IF i # None /\ ImagePath(i) # None THEN Parent(ImagePath(i))
                                                         ELSE None
MirroredPalette(i) == IF i # None THEN ImagePalette(i) ELSE None

\* an assignment that replaced the image and whose handlers called nothing
\* has returned to the application
ReplacedInARow ==
    /\ ev.done = "image"
    /\ ev.call = ""
    /\ stack = <<>>
    /\ ev.fr.nested = 0

\* C11: after a replacement of the image without re-entrancy, a
\* pixels_modified emission of the current image is republished by the
\* layer exactly once and one of any other image not at all.
C11_OneSubscription ==
    ReplacedInARow
      => \A i \in Images :
            Republished(i)[ev.layer] = (IF i = image[ev.layer] THEN 1 ELSE 0)

\* C11 witness: an image that had a path was replaced by the indexed image
C11_Witness ==
    /\ ReplacedInARow
    /\ image[ev.layer] = 2
    /\ path[ev.layer] # None
    /\ Republished(2)[ev.layer] = 1

\* C12: after every completed assignment the palette and the path of the
\* layer are those of its current image, and absent when the image is
\* absent or (the path) has no path.
C12_MirrorsCurrentImage ==
    ReplacedInARow
      => /\ palette[ev.layer] = MirroredPalette(image[ev.layer])
         /\ path[ev.layer] = MirroredPath(image[ev.layer])

\* C13: when image_updated is emitted, layer.image is the new image and the
\* palette and the path of the layer are already those of the new image.
C13_HandlersSeeNewMirrors ==
    (ev.sig = "image_updated" /\ ev.image # None /\ ImagePath(ev.image) # None)
      => /\ image[ev.layer] = ev.image
         /\ palette[ev.layer] = MirroredPalette(ev.image)
         /\ path[ev.layer] = MirroredPath(ev.image)

\* C14: assigning the image the layer already holds emits nothing, enters
\* no frame and changes no attribute and no connection of any layer.
C14_SameImageNoOp ==
    [][(ev'.call = "image" /\ image[ev'.layer] = ev'.image)
         => /\ ev'.sig = ""
            /\ ev'.err = ""
            /\ ~ev'.warn
            /\ Len(stack') = Len(stack)
            /\ UNCHANGED layerVars]_vars

\* C14 witness: the image held, not an absent one, was assigned again
C14_Witness ==
    /\ ev.call = "image"
    /\ ev.done = "image"
    /\ ev.image # None
    /\ image[ev.layer] = ev.image

\* ================================================================ viewer
\* vision-widgets/bsmu/vision/widgets/viewers/image/layered/base.py
Views == 0..(item_max_id - 1)

VTop == vstack[Len(vstack)]

\* the handlers of a layer view's image_updated (or, with an empty stack,
\* the application) may make a call
CanCallView ==
    /\ Len(vstack) < MaxViewDepth
    /\ vstack # <<>> => VTop.op = "image" /\ VTop.nested < MaxViewNested

\* setters of view v that have not connected yet
PendingOn(v) == Cardinality({k \in DOMAIN vstack :
                               vstack[k].op = "image" /\ vstack[k].view = v})

\* a conversion that never takes the palette branch
BitmapRgba(i) ==
    [kind |-> "rgba", array |-> pixels[i], shape |-> shape[i], palette |-> None]

\* the QImage made of image i: converted_to_rgba(image.array) without a
\* palette, image.colored_premultiplied_array with one
Bitmap(i) ==
    IF ImagePalette(i) = None
    THEN [kind |-> "rgba", array |-> pixels[i], shape |-> shape[i],
          palette |-> None]
    ELSE [kind |-> "colored", array |-> pixels[i], shape |-> shape[i],
          palette |-> ImagePalette(i)]

\* QImage.rect()
Rect(b) == b.shape

\* _ImageItemLayer.displayed_image: the value returned, which is also the
\* cache after the read
displayed_image(v) ==
    IF v_cache[v] = NoBitmap THEN Bitmap(v_image[v]) ELSE v_cache[v]

\* displayed_image raises AttributeError: self.image.palette with no image
ReadFails(v) == v_cache[v] = NoBitmap /\ v_image[v] = None

\* LayeredImageViewer._on_active_layer_image_updated(image) reads
\* image.path.name: the error raised in the slot, if it is connected to v
SlotError(v, img) ==
    IF active_updated[v] > 0 /\ (img = None \/ ImagePath(img) = None)
    THEN "AttributeError" ELSE ""

\* _ImageItemLayer.__init__: the new view has id max_id; its image setter
\* emits image_updated to nobody and connects the image's pixels_modified
ImageItemLayer(img, nm, vis, op) ==
    LET id == item_max_id IN
    /\ item_max_id' = id + 1
    /\ v_image' = v_image @@ (id :> img)
    /\ v_name' = v_name @@ (id :> IF nm # "" THEN nm ELSE "Layer " \o ToString(id))
    /\ v_visible' = v_visible @@ (id :> vis)
    /\ v_opacity' = v_opacity @@ (id :> op)
    /\ v_pixels_modified' = v_pixels_modified @@
                              (id :> [i \in Images |-> IF i = img THEN 1 ELSE 0])

\* a handler that disconnects the old active layer and connects nothing
on_active_layer_changed_off(conn, old, new) ==
    IF old # NoLayer THEN [conn EXCEPT ![old] = 0] ELSE conn

\* LayeredImageViewer._on_active_layer_changed(old, new): the connections
\* view.image_updated -> _on_active_layer_image_updated after it
on_active_layer_changed(conn, old, new) ==
    LET off == IF old # NoLayer THEN [conn EXCEPT ![old] = 0] ELSE conn
    IN  IF new # NoLayer THEN [off EXCEPT ![new] = @ + 1] ELSE off

\* LayeredImageViewer.add_layer -> _LayeredImageItem.add_layer.  The first
\* layer becomes the active one, the viewer connects to it, and the
\* bounding rect is read from its displayed image.
ViewAddLayer(img, nm, vis, op) ==
    LET id    == item_max_id
        first == item_layers = <<>>
        fails == first /\ img = None
    IN
    /\ CanCallView
    /\ item_max_id < MaxViews
    /\ ImageItemLayer(img, nm, vis, op)
    /\ item_layers' = Append(item_layers, id)
    /\ names_layers' = DictSet(names_layers, nm, id)
    /\ active_layer' = IF first THEN id ELSE active_layer
    /\ active_updated' =
          IF first THEN on_active_layer_changed(active_updated @@ (id :> 0),
                                                NoLayer, id)
                   ELSE active_updated @@ (id :> 0)
    /\ v_cache' = v_cache @@ (id :> IF first /\ img # None THEN Bitmap(img)
                                                           ELSE NoBitmap)
    /\ bounding_rect' = IF first /\ img # None THEN Rect(Bitmap(img))
                                               ELSE bounding_rect
    /\ vstack' = MarkNested(vstack)
    /\ vev' = [NoViewEv EXCEPT !.call = "add_layer", !.view = id, !.image = img,
                               !.name = nm,
                               !.sig = IF first THEN "active_layer_changed" ELSE "",
                               !.err = IF fails THEN "AttributeError" ELSE "",
                               !.done = IF fails THEN "" ELSE "add_layer"]
    /\ UNCHANGED <<coreVars, restVars, pixels, shape>>

\* _ImageItemLayer.image setter, lines 46-48: up to the emission of
\* image_updated
ViewSetImage(v, value) ==
    /\ CanCallView
    /\ IF v_image[v] = value
       THEN /\ vstack' = MarkNested(vstack)
            /\ vev' = [NoViewEv EXCEPT !.call = "image", !.view = v,
                                       !.image = value, !.done = "image"]
            /\ UNCHANGED viewLayerVars
       ELSE /\ \A i \in Images : v_pixels_modified[v][i] + PendingOn(v) < MaxConn
            /\ v_image' = [v_image EXCEPT ![v] = value]
            /\ v_cache' = [v_cache EXCEPT ![v] = NoBitmap]
            /\ vstack' = Append(MarkNested(vstack),
                                [NoViewFrame EXCEPT !.op = "image", !.view = v,
                                                    !.image = value])
            /\ vev' = [NoViewEv EXCEPT !.call = "image", !.view = v,
                                       !.image = value, !.old = v_image[v],
                                       !.sig = "image_updated",
                                       !.slot_err = SlotError(v, value)]
            /\ UNCHANGED <<item_max_id, v_name, v_visible, v_opacity,
                           v_pixels_modified>>
    /\ UNCHANGED <<coreVars, restVars, pixels, shape, itemVars>>

\* the setter after the emission, line 50: connects the pixels_modified of
\* the image the view holds now
ViewSetImageConnect ==
    /\ vstack # <<>>
    /\ VTop.op = "image"
    /\ LET v   == VTop.view
           cur == v_image[v]
       IN  /\ v_pixels_modified' = IF cur # None
                                   THEN Connect(v_pixels_modified, v, cur)
                                   ELSE v_pixels_modified
           /\ vev' = [NoViewEv EXCEPT !.view = v, !.image = cur, !.fr = VTop,
                                      !.err = IF cur = None THEN "AttributeError"
                                                            ELSE "",
                                      !.done = IF cur = None THEN "" ELSE "image"]
    /\ vstack' = Pop(vstack)
    /\ UNCHANGED <<item_max_id, v_image, v_name, v_visible, v_opacity, v_cache>>
    /\ UNCHANGED <<coreVars, restVars, pixels, shape, itemVars>>

\* a read of _ImageItemLayer.displayed_image
DisplayedImage(v) ==
    /\ CanCallView
    /\ vstack' = MarkNested(vstack)
    /\ IF ReadFails(v)
       THEN /\ vev' = [NoViewEv EXCEPT !.call = "displayed_image", !.view = v,
                                       !.err = "AttributeError"]
            /\ UNCHANGED v_cache
       ELSE /\ v_cache' = [v_cache EXCEPT ![v] = displayed_image(v)]
            /\ vev' = [NoViewEv EXCEPT !.call = "displayed_image", !.view = v,
                                       !.image = v_image[v],
                                       !.ret = displayed_image(v),
                                       !.computed = (v_cache[v] = NoBitmap),
                                       !.done = "displayed_image"]
    /\ UNCHANGED <<item_max_id, v_image, v_name, v_visible, v_opacity,
                   v_pixels_modified>>
    /\ UNCHANGED <<coreVars, restVars, pixels, shape, itemVars>>

\* _ImageItemLayer.visible setter
ViewSetVisible(v, value) ==
    /\ CanCallView
    /\ vstack' = MarkNested(vstack)
    /\ v_visible' = [v_visible EXCEPT ![v] = value]
    /\ vev' = [NoViewEv EXCEPT !.call = "visible", !.view = v, !.done = "visible",
                               !.sig = IF v_visible[v] # value
                                       THEN "visibility_updated" ELSE ""]
    /\ UNCHANGED <<item_max_id, v_image, v_name, v_opacity, v_cache,
                   v_pixels_modified>>
    /\ UNCHANGED <<coreVars, restVars, pixels, shape, itemVars>>

\* a paint loop that draws hidden layer views too
RECURSIVE PaintedHidden(_)
PaintedHidden(ls) ==
    IF ls = <<>> THEN <<>>
    ELSE LET l == Head(ls)
         IN  (IF v_image[l] # None
              THEN <<[view |-> l, opacity |-> v_opacity[l],
                      bitmap |-> displayed_image(l)]>>
              ELSE <<>>) \o PaintedHidden(Tail(ls))

\* the loop of _LayeredImageItem.paint over the layer views ls: the
\* drawImage calls it makes, each after setOpacity(layer.opacity)
RECURSIVE Painted(_)
Painted(ls) ==
    IF ls = <<>> THEN <<>>
    ELSE LET l == Head(ls)
         IN  (IF v_image[l] # None /\ v_visible[l]
              THEN <<[view |-> l, opacity |-> v_opacity[l],
                      bitmap |-> displayed_image(l)]>>
              ELSE <<>>) \o Painted(Tail(ls))

\* _LayeredImageItem.paint, run by the event loop: reading displayed_image
\* fills the cache of every layer view drawn
Paint ==
    LET drawn == Painted(item_layers) IN
    /\ vstack = <<>>
    /\ v_cache' = [v \in Views |->
                     IF \E k \in DOMAIN drawn : drawn[k].view = v
                     THEN displayed_image(v) ELSE v_cache[v]]
    /\ vev' = [NoViewEv EXCEPT !.call = "paint", !.drawn = drawn, !.done = "paint"]
    /\ UNCHANGED <<item_max_id, v_image, v_name, v_visible, v_opacity,
                   v_pixels_modified>>
    /\ UNCHANGED <<coreVars, restVars, pixels, shape, itemVars, vstack>>

\* an emission of Image.pixels_modified of image i: each connection runs
\* _ImageItemLayer._on_image_updated, which drops the cache and emits
\* image_updated(self.image)
ViewsUpdated(i) == [v \in Views |-> v_pixels_modified[v][i]]

EmitToViews(i) ==
    /\ v_cache' = [v \in Views |-> IF ViewsUpdated(i)[v] > 0 THEN NoBitmap
                                                             ELSE v_cache[v]]
    /\ vev' = [NoViewEv EXCEPT
                 !.sig = "pixels_modified", !.image = i,
                 !.updated = ViewsUpdated(i),
                 !.slot_err = IF \E v \in Views :
                                    /\ ViewsUpdated(i)[v] > 0
                                    /\ SlotError(v, v_image[v]) # ""
                              THEN "AttributeError" ELSE "",
                 !.done = "set_pixels"]

\* Image.set_pixels(array): replaces the buffer, emits shape_changed when
\* the shape differs, then pixels_modified
SetPixels(i, px, shp) ==
    /\ CanCallView
    /\ pixels' = [pixels EXCEPT ![i] = px]
    /\ shape' = [shape EXCEPT ![i] = shp]
    /\ IF shp # shape[i]
       THEN /\ vstack' = Append(MarkNested(vstack),
                                [NoViewFrame EXCEPT !.op = "set_pixels",
                                                    !.image = i])
            /\ vev' = [NoViewEv EXCEPT !.call = "set_pixels", !.image = i,
                                       !.sig = "shape_changed"]
            /\ UNCHANGED v_cache
       ELSE /\ vstack' = MarkNested(vstack)
            /\ EmitToViews(i)
    /\ UNCHANGED <<item_max_id, v_image, v_name, v_visible, v_opacity,
                   v_pixels_modified>>
    /\ UNCHANGED <<coreVars, restVars, itemVars>>

\* set_pixels after the emission of shape_changed
SetPixelsModified ==
    /\ vstack # <<>>
    /\ VTop.op = "set_pixels"
    /\ vstack' = Pop(vstack)
    /\ EmitToViews(VTop.image)
    /\ UNCHANGED <<item_max_id, v_image, v_name, v_visible, v_opacity,
                   v_pixels_modified>>
    /\ UNCHANGED <<coreVars, restVars, pixels, shape, itemVars>>

\* Layer views and their images: views are given images and read, and
\* images change their pixels, by the application and by handlers of
\* image_updated.
NextView ==
    \/ \E img \in Images \cup {None} :
          item_max_id < MaxWatched /\ ViewAddLayer(img, "", TRUE, 100)
    \/ \E v \in Views, i \in Images \cup {None} : ViewSetImage(v, i)
    \/ ViewSetImageConnect
    \/ \E v \in Views : DisplayedImage(v)
    \/ \E i \in Images, px \in Pixels, shp \in Shapes : SetPixels(i, px, shp)
    \/ SetPixelsModified

SpecView == Init /\ [][NextView]_vars

\* The item: the application adds layer views (a named one half
\* transparent), shows and hides them and takes their images away, and the
\* event loop paints.
NextPaint ==
    \/ \E img \in Images \cup {None}, nm \in Names, vis \in BOOLEAN :
          vstack = <<>> /\ ViewAddLayer(img, nm, vis, IF nm = "" THEN 100 ELSE 50)
    \/ \E v \in Views : vstack = <<>> /\ ViewSetImage(v, None)
    \/ ViewSetImageConnect
    \/ \E v \in Views, vis \in BOOLEAN : vstack = <<>> /\ ViewSetVisible(v, vis)
    \/ Paint

SpecPaint == Init /\ [][NextPaint]_vars

\* the layer views that hold image i
Holding(i) == {v \in Views : v_image[v] = i}

\* C15: after a pixels_modified notification of its image the cached
\* bitmap of a layer view is absent, and no read of displayed_image
\* returns a bitmap of pixels the image no longer has.
C15_NoStaleBitmap ==
    /\ vev.sig = "pixels_modified"
         => \A v \in Holding(vev.image) : v_cache[v] = NoBitmap
    /\ vev.done = "displayed_image"
         => vev.ret.array = pixels[v_image[vev.view]]

\* C16: at a shape_changed notification of an image, the cached bitmap of
\* every layer view holding that image is absent.
C16_ShapeChangedInvalidates ==
    vev.sig = "shape_changed"
      => \A v \in Holding(vev.image) : v_cache[v] = NoBitmap

\* C17: a pixels_modified emission made by the application runs the
\* invalidation of a layer view exactly once when the view holds that
\* image, and not at all when it holds another image or none.
C17_SubscribedToCurrentOnly ==
    (vev.sig = "pixels_modified" /\ vstack = <<>>)
      => \A v \in Views :
            vev.updated[v] = (IF v_image[v] = vev.image THEN 1 ELSE 0)

\* C18: a read of displayed_image computes the bitmap only when the cache
\* is absent, taking the palette branch iff the image has a palette, and
\* otherwise returns the cached bitmap as it is; the value returned is the
\* cache after the read, and no step replaces a cached bitmap by another
\* one without emptying the cache first.
C18_LazyAndRetained ==
    [][/\ vev'.done = "displayed_image"
            => LET v == vev'.view IN
               /\ vev'.ret = v_cache'[v]
               /\ vev'.computed <=> (v_cache[v] = NoBitmap)
               /\ v_cache[v] # NoBitmap => vev'.ret = v_cache[v]
               /\ vev'.computed
                    => /\ vev'.ret.kind = "colored"
                            <=> ImagePalette(v_image[v]) # None
                       /\ vev'.ret.palette = ImagePalette(v_image[v])
                       /\ vev'.ret.array = pixels[v_image[v]]
       /\ \A v \in Views :
             v_cache[v] # NoBitmap => v_cache'[v] \in {v_cache[v], NoBitmap}
      ]_vars

\* C18 witness: a read returned the retained bitmap of an indexed image
C18_Witness ==
    /\ vev.done = "displayed_image"
    /\ ~vev.computed
    /\ vev.ret.kind = "colored"

\* C19: paint draws, in the order of the layer sequence, exactly the layer
\* views that are visible and have an image, each with its own opacity and
\* its displayed image, and changes nothing but caches that were absent.
C19_PaintInOrder ==
    [][vev'.call = "paint"
         => LET Shown(v) == v_visible[v] /\ v_image[v] # None
                shown    == SelectSeq(item_layers, Shown)
            IN  /\ Len(vev'.drawn) = Len(shown)
                /\ \A k \in DOMAIN shown :
                      /\ vev'.drawn[k].view = shown[k]
                      /\ vev'.drawn[k].opacity = v_opacity[shown[k]]
                      /\ vev'.drawn[k].bitmap = v_cache'[shown[k]]
                /\ \A v \in Views :
                      v_cache'[v] # v_cache[v] => v_cache[v] = NoBitmap
                /\ UNCHANGED <<item_max_id, v_image, v_name, v_visible,
                               v_opacity, v_pixels_modified, itemVars>>
      ]_vars

\* C19 witness: two layer views of different opacity were drawn, the one
\* added first below
C19_Witness ==
    /\ vev.call = "paint"
    /\ Len(vev.drawn) = 2
    /\ vev.drawn[1].view = item_layers[1]
    /\ vev.drawn[1].opacity # vev.drawn[2].opacity

\* C20: no viewer add_layer, image assignment or paint raises.
C20_AbsentImageNeverAnError ==
    vev.err = ""

\* the bottom layer view of the item
BaseLayer == item_layers[1]

\* C21: while no operation is in progress, the bounding rect of an item
\* with layers is the rect of the displayed image of layer 0, and the null
\* rect with no layers.
C21_BoundingRectFollowsBase ==
    vstack = <<>>
      => IF item_layers = <<>>
         THEN bounding_rect = NoRect
         ELSE ~ReadFails(BaseLayer)
                => bounding_rect = Rect(displayed_image(BaseLayer))

\* C22: after every add_layer call of the viewer the active layer is the
\* layer view just added, and active_layer_changed was emitted for it.
C22_ActiveIsLastAdded ==
    vev.done = "add_layer"
      => active_layer = vev.view /\ vev.sig = "active_layer_changed"

\* C23: _on_active_layer_image_updated is connected once to image_updated
\* of the active layer view and to no other layer view.
C23_ConnectedToActiveOnly ==
    \A v \in Views : active_updated[v] = (IF v = active_layer THEN 1 ELSE 0)

\* C23 witness: of two layer views the active one alone is connected
C23_Witness ==
    /\ Len(item_layers) = 2
    /\ active_layer \in Views
    /\ active_updated[active_layer] = 1
    /\ \E v \in Views : v # active_layer /\ active_updated[v] = 0

\* =========================================================== coordinates
\* LayeredImageViewer.viewport_pos_to_image_pixel_coords, base.py:190-193.
\* A position h stands for h / 2 pixels.
Coords == 0..MaxCoord
Scrolls == 0..MaxScroll

\* Python 3 round(x) of x = h / 2: a tie goes to the even integer
PyRound(h) ==
    IF h % 2 = 0 THEN h \div 2
    ELSE LET below == (h - 1) \div 2
         IN  IF below % 2 = 0 THEN below ELSE below + 1

\* QPointF.toPoint(), qRound(x) of x = h / 2 >= 0: a tie goes up
QRound(h) == IF h % 2 = 0 THEN h \div 2 ELSE (h + 1) \div 2

\* the centre of pixel <<row, col>> in item coordinates <<x, y>>
PixelCenter(px) == <<2 * px[2] + 1, 2 * px[1] + 1>>

\* QGraphicsView.mapFromScene at scale 1: a QPoint of the viewport
ViewMapFromScene(pos, scr) ==
    <<2 * QRound(pos[1] - 2 * scr[1]), 2 * QRound(pos[2] - 2 * scr[2])>>

\* QGraphicsView.mapToScene at scale 1; the item lies at the scene origin,
\* so QGraphicsItem.mapFromScene changes nothing
ViewMapToScene(pos, scr) == <<pos[1] + 2 * scr[1], pos[2] + 2 * scr[2]>>

\* a caller maps the centre of a pixel shown in the viewport to a viewport
\* position: the QPoint the view gives, or the position computed without
\* rounding
PixelCenterToViewport(r, c, sx, sy, exact) ==
    /\ c >= sx
    /\ r >= sy
    /\ pixel' = <<r, c>>
    /\ scroll' = <<sx, sy>>
    /\ viewport_pos' =
          IF exact
          THEN <<PixelCenter(<<r, c>>)[1] - 2 * sx, PixelCenter(<<r, c>>)[2] - 2 * sy>>
          ELSE ViewMapFromScene(PixelCenter(<<r, c>>), <<sx, sy>>)
    /\ coords' = NoPos
    /\ UNCHANGED <<lateVars, coreVars, viewVars, pixels, zoomVars, journalVars>>

\* viewport_pos_to_image_pixel_coords(viewport_pos)
viewport_pos_to_image_pixel_coords ==
    /\ viewport_pos # NoPos
    /\ coords = NoPos
    /\ LET layered_image_item_pos == ViewMapToScene(viewport_pos, scroll)
       IN  coords' = <<PyRound(layered_image_item_pos[2]),
                       PyRound(layered_image_item_pos[1])>>
    /\ UNCHANGED <<lateVars, coreVars, viewVars, pixels, zoomVars, journalVars, pixel, scroll, viewport_pos>>

NextCoords ==
    \/ \E r \in Coords, c \in Coords, sx \in Scrolls, sy \in Scrolls,
          exact \in BOOLEAN : PixelCenterToViewport(r, c, sx, sy, exact)
    \/ viewport_pos_to_image_pixel_coords

SpecCoords == Init /\ [][NextCoords]_vars

\* C24: the position of the centre of a pixel maps back to that pixel.
C24_CoordinateRoundTrip ==
    coords # NoPos => coords = pixel

\* ================================================================= zoom
\* update ticks a QTimeLine of SMOOTH_ZOOM_DURATION has time for
Ticks == SMOOTH_ZOOM_DURATION \div SMOOTH_ZOOM_UPDATE_INTERVAL

TimeLines == DOMAIN time_lines

\* a wheel handler that forgets zoom_time_line.start()
on_wheel_scrolled_unstarted(up) ==
    /\ Len(time_lines) < MaxTimeLines
    /\ time_lines' = Append(time_lines,
                            [factor |-> ZoomFactor(up), time |-> 0,
                             state |-> "NotRunning", ticks |-> 0,
                             finished |-> 0, delete |-> "no"])
    /\ UNCHANGED <<transform, fitted, cur_scale, viewport_anchors>>
    /\ UNCHANGED <<lateVars, coreVars, viewVars, pixels, coordVars, journalVars>>

\* _ViewSmoothZoom.on_wheel_scrolled(event): a new time line is created,
\* connected and started; no other time line is touched
on_wheel_scrolled(up) ==
    /\ Len(time_lines) < MaxTimeLines
    /\ time_lines' = Append(time_lines,
                            [factor |-> ZoomFactor(up), time |-> 0,
                             state |-> "Running", ticks |-> 0,
                             finished |-> 0, delete |-> "no"])
    /\ UNCHANGED <<transform, fitted, cur_scale, viewport_anchors>>
    /\ UNCHANGED <<lateVars, coreVars, viewVars, pixels, coordVars, journalVars>>

\* GraphicsView._calculate_scale asserts m11 = m22
KeepsAspectRatio(f) == f[1] = f[2]

\* GraphicsView._calculate_scale: m11 of the transform made of the fitted
\* scales f and the factors tr applied since
calculate_scale(f, tr) == <<f[1], tr>>

\* GraphicsView._update_scale: _cur_scale after it; the AssertionError of
\* _calculate_scale leaves it as it was
update_scale(f, tr) == IF KeepsAspectRatio(f) THEN calculate_scale(f, tr)
                                              ELSE cur_scale

\* a GraphicsView._update_viewport_anchors without its guard
update_viewport_anchors_unguarded(scr, f, tr) == <<scr, f, tr>>

\* GraphicsView._update_viewport_anchors: _viewport_anchors after it, the
\* corners of the viewport rectangle in the scene (given by the scroll bar
\* values scr and the transform f, tr) over the scene size
update_viewport_anchors(scr, f, tr) ==
    IF viewport_anchoring THEN viewport_anchors ELSE <<scr, f, tr>>

\* the timer of a running QTimeLine fires k update intervals after its
\* last event (one, or more when the event loop was busy): valueChanged
\* runs zoom_view, and at the end of the duration finished runs deleteLater
\* and zoom_finished, whose handler GraphicsView._on_zoom_finished reads
\* the scale and then the viewport anchors
TimerEvent(t, k) ==
    LET tl    == time_lines[t]
        ends  == tl.time + k = Ticks
        after == [transform EXCEPT ![tl.factor] = @ + 1]
    IN
    /\ tl.state = "Running"
    /\ tl.time + k <= Ticks
    /\ transform' = after
    /\ time_lines' = [time_lines EXCEPT
                        ![t].time = @ + k,
                        ![t].ticks = @ + 1,
                        ![t].state = IF ends THEN "NotRunning" ELSE @,
                        ![t].finished = IF ends THEN @ + 1 ELSE @,
                        ![t].delete = IF ends THEN "scheduled" ELSE @]
    /\ cur_scale' = IF ends THEN update_scale(fitted, after) ELSE cur_scale
    /\ viewport_anchors' =
          IF ends /\ KeepsAspectRatio(fitted)
          THEN update_viewport_anchors(scroll, fitted, after)
          ELSE viewport_anchors
    /\ UNCHANGED fitted
    /\ UNCHANGED <<lateVars, coreVars, viewVars, pixels, coordVars, journalVars>>

\* the event loop deletes an object scheduled by deleteLater
DeferredDelete(t) ==
    /\ time_lines[t].delete = "scheduled"
    /\ time_lines' = [time_lines EXCEPT ![t].delete = "deleted"]
    /\ UNCHANGED <<transform, fitted, cur_scale, viewport_anchors>>
    /\ UNCHANGED <<lateVars, coreVars, viewVars, pixels, coordVars, journalVars>>

NextZoom ==
    \/ \E up \in BOOLEAN : on_wheel_scrolled(up)
    \/ \E t \in TimeLines, k \in 1..(1 + MaxLate) : TimerEvent(t, k)
    \/ \E t \in TimeLines : DeferredDelete(t)

SpecZoom == Init /\ [][NextZoom]_vars

\* One zoom at a time is followed to its end; the event loop delivers the
\* timer events of every running time line.
NextZoomFair ==
    \/ \E up \in BOOLEAN : Len(time_lines) < MaxAnimated /\ on_wheel_scrolled(up)
    \/ \E t \in TimeLines, k \in 1..(1 + MaxLate) : TimerEvent(t, k)
    \/ \E t \in TimeLines : DeferredDelete(t)

SpecZoomFair ==
    /\ Init /\ [][NextZoomFair]_vars
    /\ \A t \in 1..MaxTimeLines :
          WF_vars(t \in TimeLines /\ \E k \in 1..(1 + MaxLate) : TimerEvent(t, k))

Running(t) == t \in TimeLines /\ time_lines[t].state = "Running"

\* C25: at most one zoom time line is running, and so applying ticks, at
\* any time.
C25_OneAnimationAtATime ==
    Cardinality({t \in TimeLines : Running(t)}) <= 1

\* C26: a zoom time line applies at least one and at most Ticks scale
\* ticks, each multiplying the scale by its own factor, and only while it
\* runs; every started time line finishes; a finished one has emitted
\* zoom_finished exactly once, is scheduled for deletion or deleted, and
\* applies no further tick.
C26_ZoomTerminates ==
    /\ [](\A t \in TimeLines :
            LET tl == time_lines[t] IN
            /\ tl.ticks <= Ticks
            /\ tl.factor \in {ZoomFactor(TRUE), ZoomFactor(FALSE)}
            /\ tl.state = "Running" => tl.finished = 0 /\ tl.delete = "no"
            /\ tl.state = "NotRunning"
                 => /\ tl.finished = 1
                    /\ tl.delete \in {"scheduled", "deleted"}
                    /\ tl.ticks >= 1
                    /\ tl.time = Ticks)
    /\ [][/\ \A t \in TimeLines :
               ~Running(t) => /\ time_lines'[t].ticks = time_lines[t].ticks
                              /\ time_lines'[t].finished = time_lines[t].finished
          /\ transform' # transform
               => \E t \in TimeLines :
                     /\ Running(t)
                     /\ time_lines'[t].ticks = time_lines[t].ticks + 1
                     /\ transform' = [transform EXCEPT
                                        ![time_lines[t].factor] = @ + 1]
         ]_vars
    /\ \A t \in 1..MaxTimeLines :
          Running(t) ~> (t \in TimeLines /\ time_lines[t].state = "NotRunning")

\* C26 witness: a zoom-out time line ran all its ticks, finished and was
\* deleted
C26_Witness ==
    /\ time_lines # <<>>
    /\ time_lines[1].state = "NotRunning"
    /\ time_lines[1].factor = ZoomFactor(FALSE)
    /\ time_lines[1].ticks = Ticks
    /\ time_lines[1].delete = "deleted"
    /\ transform[ZoomFactor(FALSE)] = Ticks

\* ============================================================== journals
JTop == jstack[Len(jstack)]

\* the handlers of a journal signal (or the application) may add a record
CanCallJournal ==
    /\ Len(jstack) < MaxDepth
    /\ jstack # <<>> => JTop.nested < MaxNested

\* PatientRetinalFundusJournal.add_record(record) with a record just
\* created: up to the emission of record_adding
AddRecordRetinalFundus ==
    LET record == next_record IN
    /\ CanCallJournal
    /\ next_record <= MaxRecords
    /\ next_record' = next_record + 1
    /\ jstack' = Append(MarkNested(jstack),
                        [NoJournalFrame EXCEPT !.journal = "retinal_fundus",
                                               !.record = record,
                                               !.pc = "record_adding",
                                               !.adding = TRUE])
    /\ jev' = [NoJournalEv EXCEPT !.call = "add_record",
                                  !.journal = "retinal_fundus",
                                  !.record = record, !.sig = "record_adding"]
    /\ UNCHANGED records
    /\ UNCHANGED <<lateVars, coreVars, viewVars, pixels, coordVars, zoomVars>>

\* PatientBoneAgeJournal.add_record(record) with a record just created:
\* the journal has no record_adding signal, it appends and emits
\* record_added
AddRecordBoneAge ==
    LET record == next_record IN
    /\ CanCallJournal
    /\ next_record <= MaxRecords
    /\ next_record' = next_record + 1
    /\ records' = [records EXCEPT !["bone_age"] = Append(@, record)]
    /\ jstack' = Append(MarkNested(jstack),
                        [NoJournalFrame EXCEPT !.journal = "bone_age",
                                               !.record = record,
                                               !.pc = "record_added"])
    /\ jev' = [NoJournalEv EXCEPT !.call = "add_record", !.journal = "bone_age",
                                  !.record = record, !.sig = "record_added"]
    /\ UNCHANGED <<lateVars, coreVars, viewVars, pixels, coordVars, zoomVars>>

\* PatientRetinalFundusJournal.add_record after the emission of
\* record_adding: appends and emits record_added
AddRecordAppend ==
    /\ jstack # <<>>
    /\ JTop.pc = "record_adding"
    /\ records' = [records EXCEPT ![JTop.journal] = Append(@, JTop.record)]
    /\ jstack' = [jstack EXCEPT ![Len(jstack)].pc = "record_added",
                                ![Len(jstack)].nested = 0]
    /\ jev' = [NoJournalEv EXCEPT !.journal = JTop.journal, !.record = JTop.record,
                                  !.sig = "record_added", !.adding = JTop.adding]
    /\ UNCHANGED next_record
    /\ UNCHANGED <<lateVars, coreVars, viewVars, pixels, coordVars, zoomVars>>

\* add_record returns after the emission of record_added
AddRecordReturn ==
    /\ jstack # <<>>
    /\ JTop.pc = "record_added"
    /\ jstack' = Pop(jstack)
    /\ jev' = [NoJournalEv EXCEPT !.journal = JTop.journal, !.record = JTop.record,
                                  !.done = "add_record"]
    /\ UNCHANGED <<next_record, records>>
    /\ UNCHANGED <<lateVars, coreVars, viewVars, pixels, coordVars, zoomVars>>

NextJournal ==
    \/ AddRecordRetinalFundus
    \/ AddRecordBoneAge
    \/ AddRecordAppend
    \/ AddRecordReturn

SpecJournal == Init /\ [][NextJournal]_vars

\* C27: record_adding(record) is emitted while the record is not in the
\* records of its journal; record_added(record) is emitted after a
\* record_adding(record) of the same call, while the record is an element
\* of the records.
C27_AddRecordProtocol ==
    /\ jev.sig = "record_adding"
         => jev.record \notin Range(records[jev.journal])
    /\ jev.sig = "record_added"
         => /\ jev.record \in Range(records[jev.journal])
            /\ jev.adding

\* ------------------------------------------- layers removed under a view
\* the viewer creates the layer view of a layer of the LayeredImage through
\* LayeredImageViewer.add_layer, with the layer's image and name
ShowLayer(l) ==
    /\ l \in Range(layers)
    /\ \A v \in Views : v_name[v] # name[l]
    /\ ViewAddLayer(image[l], name[l], visibility[l], 100)

\* layer view v is the view of model layer l
Shows(v, l) == v_name[v] = name[l] /\ v_image[v] = image[l]

\* the layer that view v shows was removed from the LayeredImage
Removed(v) == \E l \in Layers : Shows(v, l) /\ l \notin Range(layers)

\* Layers with a file image are added to and removed from the LayeredImage,
\* shown in the viewer, and their views are read.
NextStale ==
    \/ \E i \in Images : AddLayerFromImage(i, "", TRUE)
    \/ AddLayerAppend
    \/ AddLayerReturn
    \/ \E l \in Layers : RemoveLayer(l)
    \/ RemoveLayerDelete
    \/ RemoveLayerReturn
    \/ \E l \in Layers : ShowLayer(l)
    \/ \E v \in Views : DisplayedImage(v)

SpecStale == Init /\ [][NextStale]_vars

\* C28: a read of displayed_image on a layer view that holds a cached bitmap
\* for a layer removed from its LayeredImage raises StaleReference or
\* returns absent; it never returns the cached bitmap and raises nothing
\* else.
C28_RemovedLayerReadIsStale ==
    [][\A v \in Views :
          (DisplayedImage(v) /\ Removed(v) /\ v_cache[v] # NoBitmap)
          => \/ vev'.err = "StaleReference"
             \/ vev'.err = "" /\ vev'.ret = NoBitmap]_vars


\* ------------------------------------------------ pixels modified in place
\* the layers of the sequence named nm
Named(nm) == {l \in Range(layers) : name[l] = nm}

\* the three cases of a call of add_layer_or_modify_pixels(nm, px, ...)
AddOrModifyPixelsCases ==
    \A nm \in Names, px \in Pixels, vis \in BOOLEAN :
       AddLayerOrModifyPixels(nm, px, vis)
       => /\ Named(nm) = {}
             => /\ ev'.sig = "layer_adding"
                /\ ev'.layer \notin Layers
                /\ Fresh(ev'.image)
                /\ image'[ev'.layer] = ev'.image
                /\ pixels'[ev'.image] = px
          /\ (Named(nm) # {} /\ \A l \in Named(nm) : image[l] = None)
             => /\ ev'.sig = "image_updated"
                /\ ev'.layer \in Named(nm)
                /\ Fresh(ev'.image)
                /\ image'[ev'.layer] = ev'.image
                /\ pixels'[ev'.image] = px
                /\ layers' = layers
          /\ (Named(nm) # {} /\ \A l \in Named(nm) : image[l] # None)
             => /\ ev'.sig = "pixels_modified"
                /\ ev'.layer \in Named(nm)
                /\ image' = image
                /\ pixels'[image[ev'.layer]] = px
                /\ layers' = layers

\* C29: add_layer_or_modify_pixels adds a layer with a new image under a
\* name no layer has, assigns a new image (image_updated) to the layer of
\* that name that has none, and otherwise keeps the image object, replaces
\* its pixels and emits pixels_modified, no image_updated and no layer
\* signal; every pixels_modified it emits is the first one of its call.
C29_AddOrModifyPixels ==
    /\ [][AddOrModifyPixelsCases]_vars
    /\ []((/\ ev.sig = "pixels_modified"
           /\ \/ ev.call = "add_layer_or_modify_pixels"
              \/ ev.fr.via = "add_layer_or_modify_pixels")
          => ev.nth = 1)


\* ------------------------------------------------------ inference results
ACTIVATION_MAP_LAYER_NAME == "Activation Map"

Visualizers == {"visualize_retinal_fundus_data", "visualize_bone_age_data"}

\* the layers made of inference results so far
Results == {l \in Layers : name[l] \in {"mask", ACTIVATION_MAP_LAYER_NAME}}

\* FlatImage(array=..., palette=...): the Image object made of the k-th
\* result, with a palette and no path; it is none of the loaded images, and
\* its pixels are not modified here
ResultImage(k) == 2 * (MaxImages + k)

\* the visualizer reads data.layers[0].image.array
FirstLayerError ==
    IF layers = <<>> THEN "IndexError"
    ELSE IF image[layers[1]] = None THEN "AttributeError" ELSE ""

\* the LayeredImage handed to the visualizers has one layer, with a loaded
\* image
AddBaseLayer(i) ==
    /\ max_id = 0
    /\ AddLayerFromImage(i, "", TRUE)

\* journal.add_record(record) of journal j with a record just created, its
\* handlers calling nothing
add_record(j) ==
    /\ next_record <= MaxRecords
    /\ next_record' = next_record + 1
    /\ records' = [records EXCEPT ![j] = Append(@, next_record)]
    /\ jev' = [NoJournalEv EXCEPT !.call = "add_record", !.journal = j,
                                  !.record = next_record,
                                  !.sig = "record_added",
                                  !.adding = (j = "retinal_fundus"),
                                  !.done = "add_record"]
    /\ UNCHANGED jstack

\* data.add_layer_from_image(FlatImage(...), name=nm) made by visualizer via
add_result_layer(nm, via) ==
    LET img == ResultImage(Cardinality(Results) + 1) IN
    /\ Cardinality(Results) < MaxResults
    /\ Len(layers) + PendingAdds < MaxSeq
    /\ ImageLayer(img, nm, TRUE)
    /\ add_layer_enter(max_id, via, nm, img)

\* RetinalFundusTableVisualizer.visualize_retinal_fundus_data(data), lines
\* 379-391: the mask of the first layer's image is added as layer 'mask'
VisualizeRetinalFundusData ==
    /\ CanCall
    /\ IF FirstLayerError # ""
       THEN /\ stack' = MarkNested(stack)
            /\ ev' = [NoEv EXCEPT !.call = "visualize_retinal_fundus_data",
                                  !.err = FirstLayerError]
            /\ UNCHANGED <<layerVars, pixels, layers, layer_by_name>>
       ELSE add_result_layer("mask", "visualize_retinal_fundus_data")
    /\ UNCHANGED <<lateVars, viewVars, coordVars, zoomVars, journalVars>>

\* visualize_retinal_fundus_data, lines 393-394, after add_layer_from_image
\* returned: the record of the LayeredImage is added to the journal
VisualizeRetinalFundusDataRecord ==
    /\ stack # <<>>
    /\ Top.op = "add_layer"
    /\ Top.pc = "layer_added"
    /\ Top.via = "visualize_retinal_fundus_data"
    /\ add_record("retinal_fundus")
    /\ stack' = Pop(stack)
    /\ ev' = [NoEv EXCEPT !.done = Top.via, !.layer = Top.layer, !.ret = Top.layer,
                          !.fr = Top]
    /\ UNCHANGED <<layerVars, pixels, layers, layer_by_name>>
    /\ UNCHANGED <<lateVars, viewVars, coordVars, zoomVars>>

\* BoneAgeTableVisualizer.visualize_bone_age_data(data, sub_windows), lines
\* 489-519: the record is added to the journal, then the activation map of
\* the first layer's image is added as layer 'Activation Map'
VisualizeBoneAgeData ==
    /\ CanCall
    /\ IF FirstLayerError # ""
       THEN /\ stack' = MarkNested(stack)
            /\ ev' = [NoEv EXCEPT !.call = "visualize_bone_age_data",
                                  !.err = FirstLayerError]
            /\ UNCHANGED <<layerVars, pixels, layers, layer_by_name>>
            /\ UNCHANGED journalVars
       ELSE /\ add_record("bone_age")
            /\ add_result_layer(ACTIVATION_MAP_LAYER_NAME,
                                "visualize_bone_age_data")
    /\ UNCHANGED <<lateVars, viewVars, coordVars, zoomVars>>

\* add_layer returns to a caller that is not visualize_retinal_fundus_data
AddLayerReturnToCaller ==
    /\ stack # <<>>
    /\ Top.via # "visualize_retinal_fundus_data"
    /\ AddLayerReturn

\* Inference results are fed into one LayeredImage, by the application and
\* by handlers of layer_adding and layer_added.
NextVisualize ==
    \/ \E i \in Images : AddBaseLayer(i)
    \/ VisualizeRetinalFundusData
    \/ VisualizeRetinalFundusDataRecord
    \/ VisualizeBoneAgeData
    \/ AddLayerAppend
    \/ AddLayerReturnToCaller

SpecVisualize == Init /\ [][NextVisualize]_vars

\* C30: when a visualizer run by the application, its handlers calling
\* nothing, has fed its result into the LayeredImage, exactly one layer of
\* the sequence has the result's name, it is the one just made and holds
\* the latest result, and the name index and the sequence agree.
C30_ResultLayerUpserted ==
    (ev.done \in Visualizers /\ ev.fr.nested = 0 /\ stack = <<>>)
      => /\ Named(ev.fr.name) = {ev.ret}
         /\ image[ev.ret] = ev.fr.image
         /\ DictGet(layer_by_name, ev.fr.name) = ev.ret
         /\ Cardinality(DOMAIN layer_by_name) = Len(layers)
         /\ \A k \in DOMAIN layers : DictGet(layer_by_name, name[layers[k]]) = layers[k]


\* ------------------------------------------------------- ids and names
\* the layers created with an empty name carry the default name
DefaultNamed(l) == name[l] = "Layer " \o ToString(l)

\* C32: every construction of an ImageLayer takes the id max_id, which no
\* earlier layer has, and raises max_id by one; a layer constructed with an
\* empty name is named "Layer <id>" and any other one by the name given;
\* names of existing layers never change, so two different layers with
\* default names have different names, also in one sequence.
C32_IdsAndDefaultNames ==
    /\ [][/\ max_id' >= max_id
          /\ \A l \in Layers : l \in DOMAIN name' /\ name'[l] = name[l]
          /\ \A nm \in Names :
                (NewImageLayer(None, nm, TRUE) \/ AddLayerFromImage(None, nm, TRUE))
                => /\ max_id' = max_id + 1
                   /\ max_id \notin Layers
                   /\ DOMAIN name' = Layers \cup {max_id}
                   /\ name'[max_id] = IF nm = "" THEN "Layer " \o ToString(max_id)
                                                 ELSE nm]_vars
    /\ [](\A l1, l2 \in Layers :
             (l1 # l2 /\ DefaultNamed(l1) /\ DefaultNamed(l2)) => name[l1] # name[l2])
    /\ [](\A k1, k2 \in DOMAIN layers :
             (layers[k1] # layers[k2] /\ DefaultNamed(layers[k1])
                                      /\ DefaultNamed(layers[k2]))
             => name[layers[k1]] # name[layers[k2]])

\* C32 witness: two layers constructed with empty names are in the sequence
C32_Witness ==
    \E k1, k2 \in DOMAIN layers :
       /\ layers[k1] # layers[k2]
       /\ DefaultNamed(layers[k1])
       /\ DefaultNamed(layers[k2])
       /\ name[layers[k1]] = "Layer 0"
       /\ name[layers[k2]] = "Layer 1"


\* ------------------------------------------------ the viewer's name index
\* _LayeredImageItem.layer(name)
layer(nm) == DictGet(names_layers, nm)

\* C33: for every layer view L of the viewer item's sequence, layer(L.name)
\* is L, also for the layer views created with an empty name.
C33_ViewNameIndexAgrees ==
    \A k \in DOMAIN item_layers : layer(v_name[item_layers[k]]) = item_layers[k]


\* ------------------------------------------------ LayeredImageViewerTool
exceptTool == <<coreVars, viewVars, pixels, coordVars, zoomVars, journalVars,
                anchorVars, selectVars, pluginVars>>

TTop == tstack[Len(tstack)]

\* the slots connected to image_updated of the layer of role r
Slots(r) == IF r = "mask" THEN t_update_masks
            ELSE IF r = "image" THEN t_on_updated ELSE 0

\* the slot that image_updated of the layer of role r runs
Slot(r) == IF r = "mask" THEN "_update_masks" ELSE "_on_layer_image_updated"

\* ImageLayer.image setter, lines 62-72, on the layer of role r: the stack
\* after the call; nothing is emitted for the image already held
SetterCall(st, r, value) ==
    IF t_image[r] = value THEN st
    ELSE Append(st, [NoToolFrame EXCEPT !.op = "image", !.role = r,
                                        !.pending = Slots(r)])

\* the LayeredImage has a mask layer, with or without an image, before the
\* tool is activated
AddMaskLayer(with_image) ==
    /\ tstack = <<>>
    /\ t_on_updated = 0
    /\ "mask" \notin t_layers
    /\ t_layers' = t_layers \cup {"mask"}
    /\ t_image' = [t_image EXCEPT !["mask"] = IF with_image THEN t_max_image + 1
                                                            ELSE None]
    /\ t_max_image' = IF with_image THEN t_max_image + 1 ELSE t_max_image
    /\ tev' = [NoToolEv EXCEPT !.call = "add_layer", !.role = "mask",
                               !.done = "add_layer"]
    /\ UNCHANGED <<t_mask_layer, t_tool_mask_layer, t_update_masks, t_on_updated,
                   t_updates, tstack>>
    /\ UNCHANGED exceptTool

\* LayeredImageViewerTool.activate, lines 128-150: the image layer view is
\* chosen, _on_layer_image_updated is connected and called
Activate ==
    /\ tstack = <<>>
    /\ t_on_updated = 0
    /\ t_on_updated' = t_on_updated + 1
    /\ tstack' = <<[NoToolFrame EXCEPT !.op = "_on_layer_image_updated",
                                       !.pc = "start"]>>
    /\ tev' = [NoToolEv EXCEPT !.call = "activate"]
    /\ UNCHANGED <<t_layers, t_image, t_max_image, t_mask_layer,
                   t_tool_mask_layer, t_update_masks, t_updates>>
    /\ UNCHANGED exceptTool

\* the application assigns an image to the layer of role r: a new image to
\* the image layer, a new image or None to the mask layer
AssignImage(r, new) ==
    LET value == IF new THEN t_max_image + 1 ELSE None IN
    /\ tstack = <<>>
    /\ r \in t_layers
    /\ r = "image" => new
    /\ t_updates < MaxUpdates
    /\ t_updates' = t_updates + 1
    /\ t_max_image' = IF new THEN t_max_image + 1 ELSE t_max_image
    /\ t_image' = [t_image EXCEPT ![r] = value]
    /\ tstack' = SetterCall(tstack, r, value)
    /\ tev' = [NoToolEv EXCEPT !.call = "image", !.role = r,
                               !.sig = IF t_image[r] = value THEN ""
                                                             ELSE "image_updated",
                               !.done = IF t_image[r] = value THEN "image" ELSE ""]
    /\ UNCHANGED <<t_layers, t_mask_layer, t_tool_mask_layer, t_update_masks,
                   t_on_updated>>
    /\ UNCHANGED exceptTool

\* the emission of image_updated runs the next connected slot
RunSlot ==
    /\ tstack # <<>>
    /\ TTop.op = "image"
    /\ TTop.pending > 0
    /\ tstack' = Append([tstack EXCEPT ![Len(tstack)].pending = @ - 1,
                                       ![Len(tstack)].ran = @ + 1],
                        [NoToolFrame EXCEPT !.op = Slot(TTop.role), !.pc = "start",
                                            !.pre_mask = t_image["mask"],
                                            !.pre_max = t_max_image])
    /\ tev' = [NoToolEv EXCEPT !.call = Slot(TTop.role), !.role = TTop.role]
    /\ UNCHANGED <<t_layers, t_image, t_max_image, t_mask_layer,
                   t_tool_mask_layer, t_update_masks, t_on_updated, t_updates>>
    /\ UNCHANGED exceptTool

\* the setter returns after the slots of image_updated (lines 74-79)
SetterReturn ==
    /\ tstack # <<>>
    /\ TTop.op = "image"
    /\ TTop.pending = 0
    /\ tstack' = Pop(tstack)
    /\ tev' = [NoToolEv EXCEPT !.done = "image", !.role = TTop.role,
                               !.ran = TTop.ran, !.fr = TTop]
    /\ UNCHANGED <<t_layers, t_image, t_max_image, t_mask_layer,
                   t_tool_mask_layer, t_update_masks, t_on_updated, t_updates>>
    /\ UNCHANGED exceptTool

\* LayeredImageViewer.layer_by_name(name) of the layer named as role r is
\* configured: the layer of the viewer's LayeredImage with that name, if any
viewer_layer_by_name(r) == IF r \in t_layers THEN r ELSE ""

\* Image.zeros_mask(palette): a new Image object
zeros_mask == t_max_image + 1

\* _on_layer_image_updated, lines 154-164: create_nonexistent_layer_with_
\* zeros_mask finds or creates the mask layer and the tool mask layer,
\* _update_masks is connected to the mask layer and then called
OnLayerImageUpdated ==
    LET new_mask == viewer_layer_by_name("mask") = ""
        new_tool == viewer_layer_by_name("tool_mask") = ""
        mask_img == IF new_mask THEN zeros_mask ELSE t_image["mask"]
        max1     == IF new_mask THEN zeros_mask ELSE t_max_image
        tool_img == IF new_tool THEN max1 + 1 ELSE t_image["tool_mask"]
        max2     == IF new_tool THEN max1 + 1 ELSE max1
    IN
    /\ tstack # <<>>
    /\ TTop.op = "_on_layer_image_updated"
    /\ TTop.pc = "start"
    /\ t_layers' = t_layers \cup {"mask", "tool_mask"}
    /\ t_image' = [t_image EXCEPT !["mask"] = mask_img, !["tool_mask"] = tool_img]
    /\ t_max_image' = max2
    /\ t_mask_layer' = "mask"
    /\ t_tool_mask_layer' = "tool_mask"
    /\ t_update_masks' = t_update_masks + 1
    /\ tstack' = Append([tstack EXCEPT ![Len(tstack)].pc = "end"],
                        [NoToolFrame EXCEPT !.op = "_update_masks", !.pc = "start",
                                            !.pre_mask = mask_img,
                                            !.pre_max = max2])
    /\ tev' = [NoToolEv EXCEPT !.call = "_update_masks"]
    /\ UNCHANGED <<t_on_updated, t_updates>>
    /\ UNCHANGED exceptTool

\* an _update_masks that gives the mask layer a new image every time
UpdateMasksAlways ==
    LET r == "mask" IN
    /\ tstack # <<>>
    /\ TTop.op = "_update_masks"
    /\ TTop.pc = "start"
    /\ t_image' = [t_image EXCEPT ![r] = zeros_mask]
    /\ t_max_image' = zeros_mask
    /\ tstack' = SetterCall([tstack EXCEPT ![Len(tstack)].pc =
                                IF r = "mask" THEN "tool" ELSE "end"],
                            r, zeros_mask)
    /\ tev' = [NoToolEv EXCEPT !.call = "image", !.role = r,
                               !.sig = "image_updated"]
    /\ UNCHANGED <<t_layers, t_mask_layer, t_tool_mask_layer, t_update_masks,
                   t_on_updated, t_updates>>
    /\ UNCHANGED exceptTool

\* _update_masks, lines 166-173: a mask layer without image is given a new
\* zeros mask (line 168); otherwise the tool mask layer is given one at once
\* (line 171)
UpdateMasks ==
    LET r == IF t_image["mask"] = None THEN "mask" ELSE "tool_mask" IN
    /\ tstack # <<>>
    /\ TTop.op = "_update_masks"
    /\ TTop.pc = "start"
    /\ t_image' = [t_image EXCEPT ![r] = zeros_mask]
    /\ t_max_image' = zeros_mask
    /\ tstack' = SetterCall([tstack EXCEPT ![Len(tstack)].pc =
                                IF r = "mask" THEN "tool" ELSE "end"],
                            r, zeros_mask)
    /\ tev' = [NoToolEv EXCEPT !.call = "image", !.role = r,
                               !.sig = "image_updated"]
    /\ UNCHANGED <<t_layers, t_mask_layer, t_tool_mask_layer, t_update_masks,
                   t_on_updated, t_updates>>
    /\ UNCHANGED exceptTool

\* _update_masks, line 171, after the mask layer was given its image
UpdateMasksTool ==
    /\ tstack # <<>>
    /\ TTop.op = "_update_masks"
    /\ TTop.pc = "tool"
    /\ t_image' = [t_image EXCEPT !["tool_mask"] = zeros_mask]
    /\ t_max_image' = zeros_mask
    /\ tstack' = SetterCall([tstack EXCEPT ![Len(tstack)].pc = "end"],
                            "tool_mask", zeros_mask)
    /\ tev' = [NoToolEv EXCEPT !.call = "image", !.role = "tool_mask",
                               !.sig = "image_updated"]
    /\ UNCHANGED <<t_layers, t_mask_layer, t_tool_mask_layer, t_update_masks,
                   t_on_updated, t_updates>>
    /\ UNCHANGED exceptTool

\* _update_masks or _on_layer_image_updated returns
SlotReturn ==
    /\ tstack # <<>>
    /\ TTop.op \in {"_update_masks", "_on_layer_image_updated"}
    /\ TTop.pc = "end"
    /\ tstack' = Pop(tstack)
    /\ tev' = [NoToolEv EXCEPT !.done = TTop.op, !.fr = TTop]
    /\ UNCHANGED <<t_layers, t_image, t_max_image, t_mask_layer,
                   t_tool_mask_layer, t_update_masks, t_on_updated, t_updates>>
    /\ UNCHANGED exceptTool

\* the steps the tool and the setters take by themselves
ToolStep ==
    \/ RunSlot
    \/ SetterReturn
    \/ OnLayerImageUpdated
    \/ UpdateMasks
    \/ UpdateMasksTool
    \/ SlotReturn

\* A tool is activated on a viewer, and the application assigns images to
\* the image layer and to the mask layer.
NextTool ==
    \/ \E b \in BOOLEAN : AddMaskLayer(b)
    \/ Activate
    \/ \E r \in {"image", "mask"}, b \in BOOLEAN : AssignImage(r, b)
    \/ ToolStep

SpecTool == Init /\ [][NextTool]_vars

\* every call in progress is followed to its end
SpecToolFair == SpecTool /\ WF_vars(ToolStep)

\* C31: the tool holds exactly one connection of _update_masks to the mask
\* layer's image_updated, however often _on_layer_image_updated has run, and
\* one image update of the mask layer runs _update_masks exactly once.
C31_OneUpdateMasksConnection ==
    /\ t_mask_layer # "" => t_update_masks = 1
    /\ (t_mask_layer # "" /\ tev.done = "image" /\ tev.fr.op = "image"
                           /\ tev.role = "mask")
         => tev.ran = 1

\* the calls of _update_masks in progress
UpdatingMasks == {k \in DOMAIN tstack : tstack[k].op = "_update_masks"}

\* C34: at most two calls of _update_masks are ever in progress; when the
\* outermost one returns the mask layer has an image, the one it had when
\* the call began if it had one, and the tool mask layer holds an image made
\* during the call; and every call in progress comes to its end.
C34_UpdateMasksTerminates ==
    /\ [](Cardinality(UpdatingMasks) <= 2)
    /\ []((tev.done = "_update_masks" /\ UpdatingMasks = {})
          => /\ t_image["mask"] # None
             /\ tev.fr.pre_mask # None => t_image["mask"] = tev.fr.pre_mask
             /\ t_image["tool_mask"] > tev.fr.pre_max)
    /\ (tstack # <<>>) ~> (tstack = <<>>)

\* C34 witness: an outermost _update_masks that found the mask layer without
\* image, and so ran itself again through image_updated, has returned
C34_Witness ==
    /\ tev.done = "_update_masks"
    /\ UpdatingMasks = {}
    /\ tev.fr.pre_mask = None
    /\ t_image["mask"] # None
    /\ t_update_masks > 0


\* ======================================================== the view scale
\* the scales QGraphicsView.fitInView may compute for a rectangle
FitScales == 1..MaxFit

\* the smaller of two scales
MinScale(a, b) == IF a <= b THEN a ELSE b

\* GraphicsView.fit_in_view(rect, mode): fitInView replaces the scale of
\* the transform by the ratios <<sx, sy>> of the viewport to the rectangle,
\* both the smaller one under KeepAspectRatio, and _update_scale follows;
\* mode defaults to IgnoreAspectRatio
fit_in_view(sx, sy, keep) ==
    LET f == IF keep THEN <<MinScale(sx, sy), MinScale(sx, sy)>>
                     ELSE <<sx, sy>>
    IN
    /\ fitted' = f
    /\ transform' = Identity
    /\ cur_scale' = update_scale(f, Identity)
    /\ UNCHANGED <<time_lines, viewport_anchors>>
    /\ UNCHANGED <<lateVars, coreVars, viewVars, pixels, coordVars, journalVars>>

\* One zoom, and the view fitted at any moment.
NextScale ==
    \/ \E up \in BOOLEAN : time_lines = <<>> /\ on_wheel_scrolled(up)
    \/ \E t \in TimeLines, k \in 1..(1 + MaxLate) : TimerEvent(t, k)
    \/ \E t \in TimeLines : DeferredDelete(t)
    \/ \E sx, sy \in FitScales, keep \in BOOLEAN : fit_in_view(sx, sy, keep)

SpecScale == Init /\ [][NextScale]_vars

\* C35: whenever no zoom time line is running, _cur_scale is the scale of
\* the view transform.
C35_ScaleFollowsTransform ==
    (\A t \in TimeLines : ~Running(t))
        => cur_scale = calculate_scale(fitted, transform)

\* ==================================================== viewport anchoring
\* what no handler of the anchoring changes
exceptAnchor == <<coreVars, viewVars, pixels, journalVars, toolVars,
                  selectVars, pluginVars, pixel, viewport_pos, coords,
                  time_lines>>

\* GraphicsView.resizeEvent(resize_event)
resizeEvent ==
    /\ apc = "idle"
    /\ viewport_anchoring_scheduled' = TRUE
    /\ aev' = [NoAnchorEv EXCEPT !.call = "resizeEvent"]
    /\ UNCHANGED <<viewport_anchoring, apc, viewport_anchors, scroll,
                   transform, fitted, cur_scale>>
    /\ UNCHANGED exceptAnchor

\* GraphicsView._reset_viewport_anchors, the slot of scene.sceneRectChanged
reset_viewport_anchors ==
    /\ apc = "idle"
    /\ viewport_anchors' = ResetAnchors
    /\ viewport_anchoring_scheduled' = TRUE
    /\ aev' = [NoAnchorEv EXCEPT !.call = "sceneRectChanged"]
    /\ UNCHANGED <<viewport_anchoring, apc, scroll, transform, fitted, cur_scale>>
    /\ UNCHANGED exceptAnchor

\* GraphicsView.scrollContentsBy(dx, dy), the scroll bars now at scr: called
\* for the user's scrolling, and by the fitInView of _anchor_viewport
scrollContentsBy(scr) ==
    /\ scr # scroll
    /\ apc = "fit_in_view" => aev.scrolls < MaxCallbacks
    /\ scroll' = scr
    /\ viewport_anchors' = update_viewport_anchors(scr, fitted, transform)
    /\ aev' = IF apc = "idle"
              THEN [NoAnchorEv EXCEPT !.call = "scrollContentsBy"]
              ELSE [aev EXCEPT !.scrolls = @ + 1]
    /\ UNCHANGED <<viewport_anchoring_scheduled, viewport_anchoring, apc,
                   transform, fitted, cur_scale>>
    /\ UNCHANGED exceptAnchor

\* GraphicsView.paintEvent(event): with anchoring scheduled, up to the
\* fitInView of _anchor_viewport, which sets the scale m that fits the
\* anchored rectangle; without, the whole handler
paintEvent(m) ==
    /\ apc = "idle"
    /\ IF viewport_anchoring_scheduled
       THEN /\ viewport_anchoring' = TRUE
            /\ apc' = "fit_in_view"
            /\ fitted' = <<m, m>>
            /\ transform' = Identity
            /\ aev' = [call |-> "paintEvent", scheduled |-> TRUE,
                       anchored |-> 1, scrolls |-> 0]
       ELSE /\ aev' = [call |-> "paintEvent", scheduled |-> FALSE,
                       anchored |-> 0, scrolls |-> 0]
            /\ UNCHANGED <<viewport_anchoring, apc, fitted, transform>>
    /\ UNCHANGED <<viewport_anchoring_scheduled, viewport_anchors, scroll,
                   cur_scale>>
    /\ UNCHANGED exceptAnchor

\* the rest of paintEvent: fit_in_view updates the scale, _anchor_viewport
\* lowers its guard and paintEvent clears the flag
anchor_viewport_return ==
    /\ apc = "fit_in_view"
    /\ cur_scale' = update_scale(fitted, transform)
    /\ viewport_anchoring' = FALSE
    /\ viewport_anchoring_scheduled' = FALSE
    /\ apc' = "idle"
    /\ UNCHANGED <<aev, viewport_anchors, scroll, transform, fitted>>
    /\ UNCHANGED exceptAnchor

\* The events of one view, scrolled horizontally and zoomed once; the
\* event loop delivers none of them while paintEvent runs.
NextAnchor ==
    \/ resizeEvent
    \/ reset_viewport_anchors
    \/ \E sx \in Scrolls : scrollContentsBy(<<sx, 0>>)
    \/ \E m \in FitScales : paintEvent(m)
    \/ anchor_viewport_return
    \/ \E up \in BOOLEAN :
          apc = "idle" /\ time_lines = <<>> /\ on_wheel_scrolled(up)
    \/ \E t \in TimeLines, k \in 1..(1 + MaxLate) :
          apc = "idle" /\ TimerEvent(t, k)
    \/ \E t \in TimeLines : apc = "idle" /\ DeferredDelete(t)

SpecAnchor == Init /\ [][NextAnchor]_vars

\* C36: a resize event and a scene-rect change schedule the anchoring and
\* nothing else does; a paint event with the flag set runs _anchor_viewport
\* once, and the flag and the guard are clear when it returns; a paint
\* event with the flag clear anchors nothing; while _anchor_viewport runs
\* the guard is set and the stored anchors do not change.
C36_DeferredAnchoring ==
    /\ [](viewport_anchoring <=> apc = "fit_in_view")
    /\ [][/\ (resizeEvent \/ reset_viewport_anchors)
               => viewport_anchoring_scheduled'
          /\ (viewport_anchoring_scheduled' /\ ~viewport_anchoring_scheduled)
               => aev'.call \in {"resizeEvent", "sceneRectChanged"}
          /\ (\E m \in FitScales : paintEvent(m))
               => IF viewport_anchoring_scheduled
                  THEN apc' = "fit_in_view" /\ aev'.anchored = 1
                  ELSE /\ apc' = "idle"
                       /\ aev'.anchored = 0
                       /\ UNCHANGED <<viewport_anchors, transform, fitted,
                                      scroll, cur_scale>>
          /\ apc = "fit_in_view"
               => /\ viewport_anchors' = viewport_anchors
                  /\ apc' = "idle"
                       => /\ ~viewport_anchoring_scheduled'
                          /\ ~viewport_anchoring'
                          /\ aev'.anchored = 1
         ]_vars

\* C36 witness: after the user scrolled and the view was resized, a paint
\* event anchored the viewport, scroll callbacks ran meanwhile, and the
\* anchors stored by the user's scroll are still there
C36_Witness ==
    /\ apc = "idle"
    /\ aev.call = "paintEvent"
    /\ aev.anchored = 1
    /\ aev.scrolls > 0
    /\ ~viewport_anchoring_scheduled
    /\ ~viewport_anchoring
    /\ viewport_anchors # ResetAnchors
    /\ viewport_anchors[1] # scroll

\* ============================================ the illustrated journal
\* the records PatientRetinalFundusTableVisualizer creates from a flat image
VoidRecords == 2

\* the records of the journal: the first VoidRecords come from
\* from_flat_image and hold the layer 'image', the later ones were
\* visualized and hold 'image' and 'mask'
ShownRecords == 1..MaxShown

RecordLayerNames(r) == IF r <= VoidRecords THEN {"image"} ELSE {"image", "mask"}

\* Visibility(visible, opacity)
Visibility(vis, op) == [visible |-> vis, opacity |-> op]

\* the visible and opacity of a layer view the viewer has just created
DefaultVisibility == Visibility(TRUE, 100)

\* LayeredFlatImageViewer.data = layered_image: one new layer view per
\* layer of the image shown from now on
viewer_set_data(r) == [nm \in RecordLayerNames(r) |-> DefaultVisibility]

\* what no step of the illustrated journal viewer changes
exceptSelect == <<coreVars, viewVars, pixels, coordVars, zoomVars,
                  journalVars, toolVars, anchorVars, pluginVars>>

\* the user changes visible or opacity of a layer view of the viewer
set_layer_view_visibility(nm, vis, op) ==
    /\ nm \in DOMAIN layer_views
    /\ layer_views[nm] # Visibility(vis, op)
    /\ layer_views' = [layer_views EXCEPT ![nm] = Visibility(vis, op)]
    /\ sev' = [call |-> "set", record |-> shown_record, restored |-> {}]
    /\ UNCHANGED <<shown_record, layer_visibility_by_name>>
    /\ UNCHANGED exceptSelect

\* a handler that restores without saving first
on_journal_record_selected_unsaved(r) ==
    LET created  == viewer_set_data(r)
        restored == {nm \in DOMAIN created :
                        nm \in DOMAIN layer_visibility_by_name}
    IN
    /\ r # shown_record
    /\ UNCHANGED layer_visibility_by_name
    /\ shown_record' = r
    /\ layer_views' = [nm \in DOMAIN created |->
                          IF nm \in restored THEN layer_visibility_by_name[nm]
                                             ELSE created[nm]]
    /\ sev' = [call |-> "_on_journal_record_selected", record |-> r,
               restored |-> restored]
    /\ UNCHANGED exceptSelect

\* PatientRetinalFundusIllustratedJournalViewer._on_journal_record_selected
\* (record), the slot of record_selected, which the table view emits when
\* its current row changes
on_journal_record_selected(r) ==
    LET saved    == [nm \in DOMAIN layer_visibility_by_name
                           \cup DOMAIN layer_views |->
                        IF nm \in DOMAIN layer_views
                        THEN layer_views[nm]
                        ELSE layer_visibility_by_name[nm]]
        created  == viewer_set_data(r)
        restored == {nm \in DOMAIN created : nm \in DOMAIN saved}
    IN
    /\ r # shown_record
    /\ layer_visibility_by_name' = saved
    /\ shown_record' = r
    /\ layer_views' = [nm \in DOMAIN created |->
                          IF nm \in restored THEN saved[nm] ELSE created[nm]]
    /\ sev' = [call |-> "_on_journal_record_selected", record |-> r,
               restored |-> restored]
    /\ UNCHANGED exceptSelect

NextSelect ==
    \/ \E r \in ShownRecords : on_journal_record_selected(r)
    \/ \E nm \in DOMAIN layer_views, vis \in BOOLEAN, op \in Opacities :
          set_layer_view_visibility(nm, vis, op)

SpecSelect == Init /\ [][NextSelect]_vars

\* the visibility a name had when a layer view of that name was last shown
\* before this selection, or the default of a name never shown
LastShown(nm) ==
    IF nm \in DOMAIN layer_views THEN layer_views[nm]
    ELSE IF nm \in DOMAIN layer_visibility_by_name
         THEN layer_visibility_by_name[nm]
         ELSE DefaultVisibility

\* C37: after a record is selected the viewer has one layer view per layer
\* of its image; a layer view whose name was shown before has the visible
\* and opacity that name last had in the viewer, any other the default.
C37_VisibilityKeptByName ==
    /\ [](DOMAIN layer_visibility_by_name \subseteq {"image", "mask"})
    /\ [][\A r \in ShownRecords :
            on_journal_record_selected(r)
              => /\ DOMAIN layer_views' = RecordLayerNames(r)
                 /\ \A nm \in RecordLayerNames(r) :
                       layer_views'[nm] = LastShown(nm)
         ]_vars
    /\ [](\A nm \in DOMAIN layer_views :
            nm \notin DOMAIN layer_visibility_by_name
              => (sev.call = "_on_journal_record_selected"
                    => layer_views[nm] = DefaultVisibility))

\* C37 witness: the last record is selected and its mask layer view is
\* restored hidden and half transparent, as a mask was left before, while
\* the image layer view has the default
C37_Witness ==
    /\ sev.call = "_on_journal_record_selected"
    /\ shown_record = MaxShown
    /\ "mask" \in sev.restored
    /\ layer_views["mask"] = Visibility(FALSE, 50)
    /\ layer_views["image"] = DefaultVisibility

\* ======================================================== PluginManager
\* full names of plugin classes, and aliases; "" stands for None
PluginNames == {"A", "B"}
Aliases == {"a"}

\* dict.get(key): 0 stands for None
PluginGet(d, k) == IF k \in DOMAIN d THEN d[k] ELSE 0

\* Plugin.full_name() of the instance p: the name its class is enabled by
\* (MdiPlugin passes MainWindowPlugin.full_name() as a plugin expression)
plugin_full_name(ps, p) == ps[p].cls

\* what no call of the plugin manager changes
exceptPlugins == <<coreVars, viewVars, pixels, coordVars, zoomVars,
                   journalVars, toolVars, anchorVars, selectVars>>

\* a plugin class is instantiated outside the plugin manager
NewPlugin(cls) ==
    /\ Len(plugins) < MaxPlugins
    /\ plugins' = Append(plugins, [cls |-> cls, enables |-> 0])
    /\ pev' = [NoPluginEv EXCEPT !.call = "Plugin"]
    /\ UNCHANGED <<created_plugins, enabled_plugins, aliases_plugins, returned>>
    /\ UNCHANGED exceptPlugins

\* PluginManager.enable_plugin(plugin) with a Plugin instance:
\* _enable_created_plugin(plugin), which raises AssertionError before it
\* enables a plugin whose full name is no key of _created_plugins
EnablePluginInstance(p) ==
    LET full_name == plugin_full_name(plugins, p)
        asserted  == full_name \in DOMAIN created_plugins
    IN
    /\ p \in DOMAIN plugins
    /\ plugins[p].enables < MaxEnables
    /\ plugins' = IF asserted THEN [plugins EXCEPT ![p].enables = @ + 1]
                              ELSE plugins
    /\ enabled_plugins' = IF asserted THEN DictSet(enabled_plugins, full_name, p)
                                      ELSE enabled_plugins
    /\ pev' = [call |-> "enable_plugin(Plugin)", expr |-> <<>>,
               result |-> IF asserted THEN p ELSE 0, before |-> 0,
               created |-> FALSE,
               enables |-> IF asserted THEN 1 ELSE 0,
               asserted |-> asserted]
    /\ UNCHANGED <<created_plugins, aliases_plugins, returned>>
    /\ UNCHANGED exceptPlugins

\* PluginManager.enable_plugin(plugin_expression) with the expression
\* 'alias = full_name -> replace_full_name', alias and replace_full_name
\* optional: _enable_plugin_created_from_expression, _create_plugin and
\* _enable_created_plugin
EnablePluginExpression(alias, full_name, replace_full_name) ==
    LET expr      == <<full_name, replace_full_name>>
        enabled   == PluginGet(enabled_plugins, full_name)
        found     == PluginGet(created_plugins, full_name)
        creates   == enabled = 0 /\ found = 0
        new       == Len(plugins) + 1
        ps        == IF creates
                     THEN Append(plugins, [cls |-> full_name, enables |-> 0])
                     ELSE plugins
        plugin    == IF enabled # 0 THEN enabled
                     ELSE IF found # 0 THEN found ELSE new
        key       == IF replace_full_name # "" THEN replace_full_name
                     ELSE plugin_full_name(ps, plugin)
        created   == IF creates THEN DictSet(created_plugins, key, plugin)
                                ELSE created_plugins
        asserted  == enabled # 0 \/ key \in DOMAIN created
        enables   == enabled = 0 /\ asserted
    IN
    /\ creates => Len(plugins) < MaxPlugins
    /\ enables => ps[plugin].enables < MaxEnables
    /\ created_plugins' = created
    /\ plugins' = IF enables THEN [ps EXCEPT ![plugin].enables = @ + 1] ELSE ps
    /\ enabled_plugins' = IF enables THEN DictSet(enabled_plugins, key, plugin)
                                     ELSE enabled_plugins
    /\ aliases_plugins' = IF asserted /\ alias # ""
                          THEN DictSet(aliases_plugins, alias, plugin)
                          ELSE aliases_plugins
    /\ returned' = IF asserted THEN DictSet(returned, expr, plugin) ELSE returned
    /\ pev' = [call |-> "enable_plugin(str)", expr |-> expr,
               result |-> IF asserted THEN plugin ELSE 0,
               before |-> PluginGet(returned, expr),
               created |-> creates,
               enables |-> IF enables THEN 1 ELSE 0,
               asserted |-> asserted]
    /\ UNCHANGED exceptPlugins

NextPlugins ==
    \/ \E cls \in PluginNames : NewPlugin(cls)
    \/ \E p \in DOMAIN plugins : EnablePluginInstance(p)
    \/ \E alias \in Aliases \cup {""}, full_name \in PluginNames,
          replace_full_name \in PluginNames \cup {""} :
          EnablePluginExpression(alias, full_name, replace_full_name)

SpecPlugins == Init /\ [][NextPlugins]_vars

\* C38: enable_plugin with an expression it was given before returns the
\* instance it returned then, constructs no plugin and calls no enable().
C38_EnableIdempotent ==
    (pev.call = "enable_plugin(str)" /\ pev.before # 0)
        => /\ pev.result = pev.before
           /\ ~pev.created
           /\ pev.enables = 0

\* C39: the assertion of _enable_created_plugin holds in every enable_plugin
\* call, and every key of _enabled_plugins is a key of _created_plugins.
C39_EnabledAreCreated ==
    /\ pev.asserted
    /\ DOMAIN enabled_plugins \subseteq DOMAIN created_plugins
====
